---- MODULE Spec2Model ----
(***************************************************************************)
(* A model of the ivy dispatch core: the backend stack and the test        *)
(* helpers that switch it (ivy_tests/test_ivy/helpers.py), and the         *)
(* Array / Container method mixins (ivy/array, ivy/container).             *)
(***************************************************************************)
EXTENDS Integers, Sequences, FiniteSets, TLC

VARIABLES
    installed,        \* frameworks that can be imported in this process
    backend_stack,    \* the backend stack, oldest first
    log,              \* every set_backend / unset_backend call made so far
    fn,               \* the helper that is running, "none" when idle
    pc,               \* its position
    nested,           \* gradient_test was entered from test_function
    gt_backend,       \* the backend the helper sets (ground truth / frontend)
    test_unsupported, \* the helper's local test_unsupported
    exit_kind,        \* how the helper was left: normal, return, raise
    exit_pc,          \* the position it was left from
    depth_at_set,     \* stack depth just before the helper's set_backend, -1 before it
    n_unset,          \* unset_backend calls the helper made since its set_backend
    excluded,         \* helpers._excluded: the framework names excluded so far
    c_self,           \* the Container the methods are called on
    a_self,           \* the Array the methods are called on
    call,             \* the last method call: receiver kind, method, arguments
    ret               \* what that call returned

bvars == <<installed, backend_stack, log, fn, pc, nested, gt_backend,
           test_unsupported, exit_kind, exit_pc, depth_at_set, n_unset, excluded>>

cvars == <<c_self, a_self, call, ret>>

vars == <<bvars, cvars>>

\* ------------------------------------------------------------------------
\* Bounds
\* ------------------------------------------------------------------------
MaxCalls == 3      \* a helper or a direct call starts only below this log length

\* ------------------------------------------------------------------------
\* Backend resolver
\* ------------------------------------------------------------------------
Backends == {"numpy", "torch", "jax"}

DefaultBackend == "numpy"

\* set_backend(name): push, or fail with UnavailableBackendError
set_backend_PushFirst(stack, name) ==
    IF name \in installed
    THEN [stack |-> Append(stack, name), err |-> "none"]
    ELSE [stack |-> Append(stack, name), err |-> "UnavailableBackendError"]

set_backend(stack, name) ==
    IF name \in installed
    THEN [stack |-> Append(stack, name), err |-> "none"]
    ELSE [stack |-> stack, err |-> "UnavailableBackendError"]

\* unset_backend(): pop to the previous backend
unset_backend_Oldest(stack) ==
    IF stack = <<>> THEN stack ELSE SubSeq(stack, 2, Len(stack))

unset_backend(stack) ==
    IF stack = <<>> THEN stack ELSE SubSeq(stack, 1, Len(stack) - 1)

\* current_backend(): the top of the stack, or the configured default
current_backend_of(stack) ==
    IF stack = <<>> THEN DefaultBackend ELSE stack[Len(stack)]

current_backend == current_backend_of(backend_stack)

\* ------------------------------------------------------------------------
\* The calls as the helpers and the user make them
\* ------------------------------------------------------------------------
CallSet(name) ==
    LET r == set_backend(backend_stack, name) IN
    /\ backend_stack' = r.stack
    /\ log' = Append(log, [op |-> "set", b |-> name, ok |-> (r.err = "none")])

CallUnset ==
    /\ backend_stack' = unset_backend(backend_stack)
    /\ log' = Append(log, [op |-> "unset", b |-> "-", ok |-> TRUE])
    /\ n_unset' = n_unset + 1

NoCall == UNCHANGED <<backend_stack, log, n_unset>>

Goto(p) == pc' = p /\ UNCHANGED <<exit_kind, exit_pc>>

Leave(kind) == pc' = "exit" /\ exit_kind' = kind /\ exit_pc' = pc

Idle == pc = "idle" /\ Len(log) < MaxCalls

\* direct calls
SetBackend(name) ==
    /\ Idle
    /\ CallSet(name)
    /\ UNCHANGED <<cvars, installed, excluded, fn, pc, nested, gt_backend, test_unsupported,
                   exit_kind, exit_pc, depth_at_set, n_unset>>

UnsetBackend ==
    /\ Idle
    /\ CallUnset
    /\ UNCHANGED <<cvars, installed, excluded, fn, pc, nested, gt_backend, test_unsupported,
                   exit_kind, exit_pc, depth_at_set>>

\* a helper is called with its ground_truth_backend / frontend argument
CallHelper(f, first, b) ==
    /\ Idle
    /\ fn' = f
    /\ pc' = first
    /\ gt_backend' = b
    /\ nested' = FALSE
    /\ test_unsupported' = FALSE
    /\ exit_kind' = "none"
    /\ exit_pc' = "none"
    /\ depth_at_set' = -1
    /\ n_unset' = 0
    /\ UNCHANGED <<cvars, installed, excluded, backend_stack, log>>

\* the helper's frame is dropped; the stack stays as the helper left it
ReturnToCaller ==
    /\ pc = "exit"
    /\ ~nested
    /\ fn' = "none"
    /\ pc' = "idle"
    /\ gt_backend' = DefaultBackend
    /\ test_unsupported' = FALSE
    /\ exit_kind' = "none"
    /\ exit_pc' = "none"
    /\ depth_at_set' = -1
    /\ n_unset' = 0
    /\ UNCHANGED <<cvars, installed, excluded, backend_stack, log, nested>>

\* the helper's own ivy.set_backend(...) statement
HelperSet(at, next) ==
    /\ pc = at
    /\ CallSet(gt_backend)
    /\ IF set_backend(backend_stack, gt_backend).err = "none"
       THEN /\ Goto(next)
            /\ depth_at_set' = Len(backend_stack)
       ELSE /\ Leave("raise")
            /\ depth_at_set' = -1
    /\ n_unset' = 0
    /\ UNCHANGED <<cvars, installed, excluded, fn, nested, gt_backend, test_unsupported>>

Frame == <<cvars, installed, excluded, fn, nested, gt_backend, depth_at_set>>

\* a statement outside any try block: it completes or its exception propagates
Plain(at, next) ==
    /\ pc = at
    /\ \E raised \in BOOLEAN :
          IF raised THEN Leave("raise") ELSE Goto(next)
    /\ NoCall
    /\ UNCHANGED <<Frame, test_unsupported>>

\* the helper's closing ivy.unset_backend() statement
HelperUnset(at, next) ==
    /\ pc = at
    /\ CallUnset
    /\ Goto(next)
    /\ UNCHANGED <<Frame, test_unsupported>>

\* the value test that ends a helper: passes, or its assertion fails
ValueTest(at) ==
    /\ pc = at
    /\ \E raised \in BOOLEAN :
          IF raised THEN Leave("raise") ELSE Leave("normal")
    /\ NoCall
    /\ UNCHANGED <<Frame, test_unsupported>>

\* the part of a helper before its set_backend: it may raise or return early
Prologue(at, next) ==
    /\ pc = at
    /\ \E how \in {"raise", "return", "go"} :
          IF how = "go" THEN Goto(next) ELSE Leave(how)
    /\ NoCall
    /\ UNCHANGED <<Frame, test_unsupported>>

\* a statement inside "try: ... except Exception as e: ivy.unset_backend(); raise e"
Guarded(at, next) ==
    /\ pc = at
    /\ \E raised \in BOOLEAN :
          IF raised
          THEN CallUnset /\ Leave("raise")
          ELSE NoCall /\ Goto(next)
    /\ UNCHANGED <<Frame, test_unsupported>>

\* check_unsupported_dtype inside such a try block
GuardedCheck(at, next) ==
    /\ pc = at
    /\ \E raised \in BOOLEAN, unsupported \in BOOLEAN :
          IF raised
          THEN CallUnset /\ Leave("raise") /\ UNCHANGED test_unsupported
          ELSE NoCall /\ Goto(next) /\ test_unsupported' = unsupported
    /\ UNCHANGED Frame

\* test_unsupported_function(fn, args, kwargs): what is raised in its try body is
\* fn's exception, or the AssertionError of "assert False" when fn returns; the
\* bare except catches either and the helper returns
test_unsupported_function(fn_raises) ==
    LET in_body == IF fn_raises THEN "Exception" ELSE "AssertionError"
    IN  IF in_body \in {"Exception", "AssertionError"} THEN "return" ELSE "raise"

\* ------------------------------------------------------------------------
\* gradient_test (helpers.py 540-610)
\* ------------------------------------------------------------------------
GradientTest_call(b) == CallHelper("gradient_test", "gr_pre", b)

GradientTest_pre == Plain("gr_pre", "gr_set")

GradientTest_set == HelperSet("gr_set", "gr_check")

\* 581-587: check_unsupported_dtype, then "if test_unsupported: return"
GradientTest_check ==
    /\ pc = "gr_check"
    /\ \E raised \in BOOLEAN, unsupported \in BOOLEAN :
          IF raised
          THEN Leave("raise") /\ UNCHANGED test_unsupported
          ELSE /\ test_unsupported' = unsupported
               /\ IF unsupported THEN Leave("return") ELSE Goto("gr_compute")
    /\ NoCall
    /\ UNCHANGED Frame

\* 588-601: arguments and gradients under the ground-truth backend
GradientTest_compute == Plain("gr_compute", "gr_unset")

GradientTest_unset == HelperUnset("gr_unset", "gr_value")

GradientTest_value == ValueTest("gr_value")

\* ------------------------------------------------------------------------
\* test_method (helpers.py 800-924)
\* ------------------------------------------------------------------------
TestMethod_call(b) == CallHelper("test_method", "tm_pre", b)

TestMethod_pre == Plain("tm_pre", "tm_set")

TestMethod_set == HelperSet("tm_set", "tm_compute")

\* 898-913: build the ground-truth instance and call it
TestMethod_compute == Plain("tm_compute", "tm_unset")

TestMethod_unset == HelperUnset("tm_unset", "tm_value")

\* 915-924: "if not test_values: return", else value_test
TestMethod_value ==
    /\ pc = "tm_value"
    /\ \E how \in {"raise", "return", "normal"} : Leave(how)
    /\ NoCall
    /\ UNCHANGED <<Frame, test_unsupported>>

\* ------------------------------------------------------------------------
\* test_function (helpers.py 927-1238)
\* ------------------------------------------------------------------------
TestFunction_call(b) == CallHelper("test_function", "tf_pre", b)

\* 1024-1164: the run under the current backend
TestFunction_pre == Prologue("tf_pre", "tf_set")

TestFunction_set == HelperSet("tf_set", "tf_check")

\* 1168-1171
TestFunction_check == GuardedCheck("tf_check", "tf_args")

\* 1172-1194: create_args_kwargs; when test_unsupported its exception is caught
\* by the inner handler, which unsets and returns
TestFunction_args_NoUnset ==
    /\ pc = "tf_args"
    /\ \E raised \in BOOLEAN :
          IF raised
          THEN IF test_unsupported
               THEN NoCall /\ Leave("return")
               ELSE CallUnset /\ Leave("raise")
          ELSE NoCall /\ Goto("tf_call")
    /\ UNCHANGED <<Frame, test_unsupported>>

TestFunction_args ==
    /\ pc = "tf_args"
    /\ \E raised \in BOOLEAN :
          IF raised
          THEN IF test_unsupported
               THEN CallUnset /\ Leave("return")
               ELSE CallUnset /\ Leave("raise")
          ELSE NoCall /\ Goto("tf_call")
    /\ UNCHANGED <<Frame, test_unsupported>>

\* 1195-1202: test_unsupported_function, unset, return; or the ground-truth call
TestFunction_ground_truth ==
    /\ pc = "tf_call"
    /\ \E raised \in BOOLEAN :
          IF test_unsupported
          THEN IF test_unsupported_function(raised) = "return"
               THEN CallUnset /\ Leave("return")
               ELSE CallUnset /\ Leave("raise")
          ELSE IF raised
               THEN CallUnset /\ Leave("raise")
               ELSE NoCall /\ Goto("tf_unset")
    /\ UNCHANGED <<Frame, test_unsupported>>

\* 1206
TestFunction_unset == HelperUnset("tf_unset", "tf_after")

\* 1207-1227: gradient_test is called with its default ground_truth_backend
TestFunction_gradients ==
    /\ pc = "tf_after"
    /\ \E test_gradients \in BOOLEAN :
          IF test_gradients
          THEN /\ fn' = "gradient_test"
               /\ pc' = "gr_pre"
               /\ nested' = TRUE
               /\ gt_backend' = "torch"
               /\ depth_at_set' = -1
               /\ n_unset' = 0
               /\ UNCHANGED <<exit_kind, exit_pc>>
          ELSE /\ Goto("tf_value")
               /\ UNCHANGED <<fn, nested, gt_backend, depth_at_set, n_unset>>
    /\ UNCHANGED <<cvars, installed, excluded, backend_stack, log, test_unsupported>>

\* gradient_test returns into test_function, or its exception passes through
GradientTest_return ==
    /\ pc = "exit"
    /\ nested
    /\ fn' = "test_function"
    /\ nested' = FALSE
    /\ depth_at_set' = -1
    /\ n_unset' = 0
    /\ IF exit_kind = "raise"
       THEN pc' = "exit" /\ exit_kind' = "raise" /\ exit_pc' = "tf_after"
       ELSE pc' = "tf_value" /\ exit_kind' = "none" /\ exit_pc' = "none"
    /\ UNCHANGED <<cvars, installed, excluded, backend_stack, log, gt_backend, test_unsupported>>

\* 1229-1238
TestFunction_value ==
    /\ pc = "tf_value"
    /\ \E how \in {"raise", "return", "normal"} : Leave(how)
    /\ NoCall
    /\ UNCHANGED <<Frame, test_unsupported>>

\* ------------------------------------------------------------------------
\* test_frontend_function (helpers.py 1241-1446)
\* ------------------------------------------------------------------------
TestFrontendFunction_call(b) == CallHelper("test_frontend_function", "ff_pre", b)

\* 1293-1382: the run under the current backend
TestFrontendFunction_pre == Prologue("ff_pre", "ff_set")

\* 1385
TestFrontendFunction_set == HelperSet("ff_set", "ff_check")

\* 1387-1391
TestFrontendFunction_check == GuardedCheck("ff_check", "ff_args")

\* 1393-1404
TestFrontendFunction_args == Guarded("ff_args", "ff_call")

\* 1406-1426: "if test_unsupported: test_unsupported_function(...); return",
\* else the frontend framework's call
TestFrontendFunction_frontend ==
    /\ pc = "ff_call"
    /\ \E raised \in BOOLEAN :
          IF test_unsupported
          THEN IF test_unsupported_function(raised) = "return"
               THEN NoCall /\ Leave("return")
               ELSE CallUnset /\ Leave("raise")
          ELSE IF raised
               THEN CallUnset /\ Leave("raise")
               ELSE NoCall /\ Goto("ff_unset")
    /\ UNCHANGED <<Frame, test_unsupported>>

\* 1430
TestFrontendFunction_unset == HelperUnset("ff_unset", "ff_value")

\* 1432-1446
TestFrontendFunction_value ==
    /\ pc = "ff_value"
    /\ \E how \in {"raise", "return", "normal"} : Leave(how)
    /\ NoCall
    /\ UNCHANGED <<Frame, test_unsupported>>

\* ------------------------------------------------------------------------
\* Leaves, arrays and containers
\* ------------------------------------------------------------------------
\* A leaf is a record: kind is "Array" (an ivy.Array wrapper), "native" (a
\* native handle), "scalar", "list" (a list of native arrays) or "none" (None);
\* data is its content; by is <<>> for a given value and, for the value an ivy
\* function returned, the one call that made it: its name, its positional
\* operands and its keyword operands, in the order of the call.
Leaf(kind, data) == [kind |-> kind, data |-> data, by |-> <<>>]

Scalar(n) == Leaf("scalar", <<n>>)

None == Leaf("none", <<>>)

\* ivy.is_array
is_array(x) == x.kind \in {"Array", "native"}

\* ivy.exists
exists(x) == x.kind # "none"

\* self._data of an ivy.Array
Data(x) == IF x.kind = "Array" THEN [x EXCEPT !.kind = "native"] ELSE x

\* a keyword operand
Kw(k, v) == [k |-> k, v |-> v]

\* ivy.<name>(*pos, **kw) without out: the Array the backend function returns
ivy_fn(name, pos, kw) ==
    [kind |-> "Array",
     data |-> IF pos # <<>> THEN pos[1].data ELSE kw[1].v.data,
     by |-> <<[fn |-> name, pos |-> pos, kw |-> kw]>>]

\* A Container is the sequence of its leaves in depth-first key-insertion
\* order, each with its key-chain.
Entry(kc, leaf) == [kc |-> kc, leaf |-> leaf]

KeyChainsOf(c) == {c[i].kc : i \in 1..Len(c)}

LeafAt(c, kc) == c[CHOOSE i \in 1..Len(c) : c[i].kc = kc].leaf

\* key_chains=None
NoKeyChains == {"None"}

\* the key-chain selector of a map / multi_map call
Selected_Inverted(kc, key_chains, to_apply) ==
    \/ key_chains = NoKeyChains
    \/ (kc \in key_chains) # to_apply

Selected(kc, key_chains, to_apply) ==
    \/ key_chains = NoKeyChains
    \/ (kc \in key_chains) = to_apply

\* a list leaf is entered when map_nests is set
Enter(leaf, map_nests) ==
    IF leaf.kind = "list" /\ map_nests THEN [leaf EXCEPT !.kind = "native"] ELSE leaf

\* the values fn can be called with in a map over c: the leaves of c, and
\* the elements of its list leaves
LeavesOf(c) == {c[i].leaf : i \in 1..Len(c)} \cup {Enter(c[i].leaf, TRUE) : i \in 1..Len(c)}

ApplyToLeaf_Unwrapped(func, leaf, map_sequences) ==
    IF leaf.kind = "list" /\ map_sequences
    THEN func[Enter(leaf, TRUE)]
    ELSE func[leaf]

\* fn applied to one leaf; with map_sequences a list leaf is entered and fn
\* is applied to its elements
ApplyToLeaf(func, leaf, map_sequences) ==
    IF leaf.kind = "list" /\ map_sequences
    THEN [func[Enter(leaf, TRUE)] EXCEPT !.kind = "list"]
    ELSE func[leaf]

Strip(marked) ==
    LET kept == SelectSeq(marked, LAMBDA e : e.keep)
    IN  [i \in 1..Len(kept) |-> Entry(kept[i].kc, kept[i].leaf)]

AppliedIn(marked) == {marked[i].kc : i \in {j \in 1..Len(marked) : marked[j].applied}}

\* the calls of fn, in the order they were made
CallsIn(marked) ==
    LET called == SelectSeq(marked, LAMBDA e : e.applied)
    IN  [i \in 1..Len(called) |-> [kc |-> called[i].kc, xs |-> called[i].xs]]

\* Container.map(fn, key_chains, to_apply, prune_unapplied, map_sequences):
\* calls is the sequence of the calls of fn, each with its key-chain and the
\* leaves it was given
map(c, func, key_chains, to_apply, prune_unapplied, map_sequences) ==
    LET marked == [i \in 1..Len(c) |->
            IF Selected(c[i].kc, key_chains, to_apply)
            THEN [kc |-> c[i].kc,
                  leaf |-> ApplyToLeaf(func, c[i].leaf, map_sequences),
                  xs |-> <<Enter(c[i].leaf, map_sequences)>>,
                  keep |-> TRUE, applied |-> TRUE]
            ELSE [kc |-> c[i].kc, leaf |-> c[i].leaf, xs |-> <<>>,
                  keep |-> ~prune_unapplied, applied |-> FALSE]]
    IN  [c |-> Strip(marked), applied |-> AppliedIn(marked), err |-> "none",
         calls |-> CallsIn(marked), written |-> {}]

\* an out argument: given or None; obj names the object that is passed
NoOut == [given |-> FALSE, c |-> <<>>, obj |-> "none"]

Out(c) == [given |-> TRUE, c |-> c, obj |-> "out"]

\* what a call hands back: the object returned ("new" for a fresh object,
\* "out" for the object passed as out), its value, the exception if any,
\* the key-chains the leaf function was applied at, the calls of the leaf
\* function in order, and the objects that were written in place
Ret(id, c, applied, err, calls, written) ==
    [id |-> id, c |-> c, applied |-> applied, err |-> err, calls |-> calls, written |-> written]

\* ContainerBase.handle_inplace(ret, out)
handle_inplace_Copy(result, out) ==
    IF result.err # "none"
    THEN Ret("none", <<>>, result.applied, result.err, result.calls, result.written)
    ELSE IF ~out.given
    THEN Ret("new", result.c, result.applied, "none", result.calls, result.written)
    ELSE IF ~(KeyChainsOf(out.c) \subseteq KeyChainsOf(result.c))
         THEN Ret("none", <<>>, result.applied, "KeyChainMismatchError", result.calls, result.written)
         ELSE Ret("new",
                  [i \in 1..Len(out.c) |->
                      Entry(out.c[i].kc, LeafAt(result.c, out.c[i].kc))],
                  result.applied, "none", result.calls, result.written)

handle_inplace_Lenient(result, out) ==
    IF result.err # "none"
    THEN Ret("none", <<>>, result.applied, result.err, result.calls, result.written)
    ELSE IF ~out.given
    THEN Ret("new", result.c, result.applied, "none", result.calls, result.written)
    ELSE Ret(out.obj,
             [i \in 1..Len(out.c) |->
                 IF out.c[i].kc \in KeyChainsOf(result.c)
                 THEN Entry(out.c[i].kc, LeafAt(result.c, out.c[i].kc))
                 ELSE out.c[i]],
             result.applied, "none", result.calls, result.written \cup {out.obj})

handle_inplace(result, out) ==
    IF result.err # "none"
    THEN Ret("none", <<>>, result.applied, result.err, result.calls, result.written)
    ELSE IF ~out.given
    THEN Ret("new", result.c, result.applied, "none", result.calls, result.written)
    ELSE IF ~(KeyChainsOf(out.c) \subseteq KeyChainsOf(result.c))
         THEN Ret("none", <<>>, result.applied, "KeyChainMismatchError", result.calls, result.written)
         ELSE Ret(out.obj,
                  [i \in 1..Len(out.c) |->
                      Entry(out.c[i].kc, LeafAt(result.c, out.c[i].kc))],
                  result.applied, "none", result.calls, result.written \cup {out.obj})

\* an argument of a static method: a Container, or a plain array / scalar
Cont(c) == [cont |-> TRUE, c |-> c, leaf |-> None]

Val(leaf) == [cont |-> FALSE, c |-> <<>>, leaf |-> leaf]

\* the nodes above a key-chain: "b/c" and "b/d" are the children of "b"
Ancestors(kc) == IF kc \in {"b/c", "b/d"} THEN {"b"} ELSE {}

\* the key-chains of c below the node kc, in the order of c
Below(c, kc) == SelectSeq([i \in 1..Len(c) |-> c[i].kc], LAMBDA k : kc \in Ancestors(k))

\* the key-chains walked at the node kc of the first container: kc itself,
\* or, where another container is nested at kc, its key-chains below kc
WalkAt(conts, kc) ==
    LET nested_in == {j \in 1..Len(conts) : Below(conts[j], kc) # <<>>}
    IN  IF nested_in = {}
        THEN <<kc>>
        ELSE Below(conts[CHOOSE j \in nested_in : \A k \in nested_in : j <= k], kc)

\* the walk of multi_map: depth-first, in the key order of the first container
Walk_Reversed(conts) ==
    LET c == conts[1]
        n == Len(c)
        at(i) == IF i <= n THEN WalkAt(conts, c[n + 1 - i].kc) ELSE <<>>
    IN  at(1) \o at(2) \o at(3)

Walk(conts) ==
    LET c == conts[1]
        at(i) == IF i <= Len(c) THEN WalkAt(conts, c[i].kc) ELSE <<>>
    IN  at(1) \o at(2) \o at(3)

\* a container has a value for the key-chain: a leaf there, or a leaf at a
\* node above, which is broadcast
HasAt(c, kc) == kc \in KeyChainsOf(c) \/ Ancestors(kc) \cap KeyChainsOf(c) # {}

ValueAt(c, kc) ==
    IF kc \in KeyChainsOf(c)
    THEN LeafAt(c, kc)
    ELSE LeafAt(c, CHOOSE a \in Ancestors(kc) : a \in KeyChainsOf(c))

\* the containers diverge in key structure
Diverge_Strict(conts) == \E j \in 1..Len(conts) : KeyChainsOf(conts[j]) # KeyChainsOf(conts[1])

Diverge(conts) ==
    LET w == Walk(conts)
        walked == {w[i] : i \in 1..Len(w)}
    IN  \E j \in 1..Len(conts) :
            \/ \E kc \in walked : ~HasAt(conts[j], kc)
            \/ \E kc \in KeyChainsOf(conts[j]) :
                   kc \notin walked /\ ~(\E v \in walked : kc \in Ancestors(v))

\* the list of leaves fn is given at one key-chain
LeavesAt(conts, kc, map_nests) ==
    [j \in 1..Len(conts) |-> Enter(ValueAt(conts[j], kc), map_nests)]

\* the key-chains at which all the containers have a value
CommonKeyChains(conts) ==
    LET w == Walk(conts)
    IN  {kc \in {w[i] : i \in 1..Len(w)} : \A j \in 1..Len(conts) : HasAt(conts[j], kc)}

\* ContainerBase.multi_map(fn, containers, key_chains, to_apply,
\* prune_unapplied, map_nests): the containers are walked in lockstep, in the
\* order of the first one; fn gets a new list of the leaves at each key-chain
\* and returns its result (ret) and what it left of the list (xs_)
multi_map(func, conts, key_chains, to_apply, prune_unapplied, map_nests) ==
    IF conts = <<>>
    THEN [c |-> <<>>, applied |-> {}, err |-> "none", calls |-> <<>>, written |-> {}]
    ELSE IF Diverge(conts)
    THEN [c |-> <<>>, applied |-> {}, err |-> "StructureMismatchError",
          calls |-> <<>>, written |-> {}]
    ELSE
    LET w == Walk(conts)
        leaves(i) == LeavesAt(conts, w[i], map_nests)
        first(i) == ValueAt(conts[1], w[i])
        marked == [i \in 1..Len(w) |->
            IF Selected(w[i], key_chains, to_apply)
            THEN [kc |-> w[i],
                  leaf |-> IF first(i).kind = "list" /\ map_nests
                           THEN [func[leaves(i)].ret EXCEPT !.kind = "list"]
                           ELSE func[leaves(i)].ret,
                  xs |-> leaves(i),
                  keep |-> TRUE, applied |-> TRUE]
            ELSE [kc |-> w[i], leaf |-> first(i), xs |-> <<>>,
                  keep |-> ~prune_unapplied, applied |-> FALSE]]
    IN  [c |-> Strip(marked), applied |-> AppliedIn(marked), err |-> "none",
         calls |-> CallsIn(marked),
         written |-> IF \E i \in 1..Len(w) :
                            marked[i].applied /\ func[leaves(i)].xs_ # leaves(i)
                     THEN {"xs_"} ELSE {}]

\* the Containers among the arguments, positional ones first
ContainersOf(args, kwargs) ==
    LET pa == SelectSeq(args, LAMBDA a : a.cont)
        ka == SelectSeq(kwargs, LAMBDA k : k.v.cont)
    IN  [i \in 1..(Len(pa) + Len(ka)) |->
            IF i <= Len(pa) THEN pa[i].c ELSE ka[i - Len(pa)].v.c]

\* ContainerBase.multi_map_in_static_method(fn_name, *args, **kwargs): each
\* Container argument gives its leaf at the key-chain, every other argument
\* is passed as it is, and ivy.<fn_name> is called on them
multi_map_in_static_method(fn_name, args, kwargs, key_chains, to_apply, prune_unapplied, map_sequences, out) ==
    LET conts == ContainersOf(args, kwargs)
        npos == Cardinality({i \in 1..Len(args) : args[i].cont})
        rank_a(i) == Cardinality({j \in 1..i : args[j].cont})
        rank_k(i) == npos + Cardinality({j \in 1..i : kwargs[j].v.cont})
        leaf_fn ==
            [xs \in {LeavesAt(conts, kc, map_sequences) : kc \in CommonKeyChains(conts)} |->
                [ret |-> ivy_fn(fn_name,
                                [i \in 1..Len(args) |->
                                    IF args[i].cont THEN xs[rank_a(i)] ELSE args[i].leaf],
                                [i \in 1..Len(kwargs) |->
                                    Kw(kwargs[i].k,
                                       IF kwargs[i].v.cont THEN xs[rank_k(i)] ELSE kwargs[i].v.leaf)]),
                 xs_ |-> xs]]
    IN  handle_inplace(
            multi_map(leaf_fn, conts, key_chains, to_apply, prune_unapplied, map_sequences),
            out)

Container_expand_dims_Swapped(self, axis, key_chains, to_apply, prune_unapplied, map_sequences, out) ==
    handle_inplace(
        map(self,
            [x_ \in LeavesOf(self) |->
                IF is_array(x_) THEN ivy_fn("expand_dims", <<x_>>, <<Kw("axis", axis)>>) ELSE x_],
            key_chains, prune_unapplied, to_apply, map_sequences),
        out)

\* ------------------------------------------------------------------------
\* ContainerWithManipulation: the methods built on self.map
\* (ivy/container/manipulation.py)
\* ------------------------------------------------------------------------
\* manipulation.py 52-73
Container_expand_dims(self, axis, key_chains, to_apply, prune_unapplied, map_sequences, out) ==
    handle_inplace(
        map(self,
            [x_ \in LeavesOf(self) |->
                IF is_array(x_) THEN ivy_fn("expand_dims", <<x_>>, <<Kw("axis", axis)>>) ELSE x_],
            key_chains, to_apply, prune_unapplied, map_sequences),
        out)

\* manipulation.py 75-96
Container_permute_dims(self, axes, key_chains, to_apply, prune_unapplied, map_sequences, out) ==
    handle_inplace(
        map(self,
            [x_ \in LeavesOf(self) |->
                IF is_array(x_) THEN ivy_fn("permute_dims", <<x_>>, <<Kw("axes", axes)>>) ELSE x_],
            key_chains, to_apply, prune_unapplied, map_sequences),
        out)

Container_flip_Swapped(self, axis, key_chains, to_apply, prune_unapplied, map_sequences, out) ==
    handle_inplace(
        map(self,
            [x_ \in LeavesOf(self) |->
                IF is_array(x_) THEN ivy_fn("flip", <<x_>>, <<Kw("axis", axis)>>) ELSE x_],
            key_chains, prune_unapplied, to_apply, map_sequences),
        out)

\* manipulation.py 98-117
Container_flip(self, axis, key_chains, to_apply, prune_unapplied, map_sequences, out) ==
    handle_inplace(
        map(self,
            [x_ \in LeavesOf(self) |->
                IF is_array(x_) THEN ivy_fn("flip", <<x_>>, <<Kw("axis", axis)>>) ELSE x_],
            key_chains, to_apply, prune_unapplied, map_sequences),
        out)

\* manipulation.py 443-487
Container_squeeze(self, axis, key_chains, to_apply, prune_unapplied, map_sequences, out) ==
    handle_inplace(
        map(self,
            [x_ \in LeavesOf(self) |->
                IF is_array(x_) THEN ivy_fn("squeeze", <<x_>>, <<Kw("axis", axis)>>) ELSE x_],
            key_chains, to_apply, prune_unapplied, map_sequences),
        out)

\* manipulation.py 603-622
Container_tile(self, reps, key_chains, to_apply, prune_unapplied, map_sequences, out) ==
    handle_inplace(
        map(self,
            [x_ \in LeavesOf(self) |->
                IF is_array(x_) THEN ivy_fn("tile", <<x_>>, <<Kw("reps", reps)>>) ELSE x_],
            key_chains, to_apply, prune_unapplied, map_sequences),
        out)

\* manipulation.py 624-646
Container_constant_pad(self, pad_width, value, key_chains, to_apply, prune_unapplied, map_sequences, out) ==
    handle_inplace(
        map(self,
            [x_ \in LeavesOf(self) |->
                IF is_array(x_) THEN ivy_fn("constant_pad", <<x_>>, <<Kw("pad_width", pad_width), Kw("value", value)>>) ELSE x_],
            key_chains, to_apply, prune_unapplied, map_sequences),
        out)

\* manipulation.py 648-670
Container_zero_pad(self, pad_width, value, key_chains, to_apply, prune_unapplied, map_sequences, out) ==
    handle_inplace(
        map(self,
            [x_ \in LeavesOf(self) |->
                IF is_array(x_) THEN ivy_fn("zero_pad", <<x_>>, <<Kw("pad_width", pad_width)>>) ELSE x_],
            key_chains, to_apply, prune_unapplied, map_sequences),
        out)

\* manipulation.py 672-694
Container_swapaxes(self, axis0, axis1, key_chains, to_apply, prune_unapplied, map_sequences, out) ==
    handle_inplace(
        map(self,
            [x_ \in LeavesOf(self) |->
                IF is_array(x_) THEN ivy_fn("swapaxes", <<x_>>, <<Kw("axis0", axis0), Kw("axis1", axis1)>>) ELSE x_],
            key_chains, to_apply, prune_unapplied, map_sequences),
        out)

\* ------------------------------------------------------------------------
\* The static methods and the instance methods that call them
\* (ivy/container/general.py, manipulation.py, losses.py)
\* ------------------------------------------------------------------------
\* general.py 15-82
Container_static_clip_vector_norm(x, max_norm, p, key_chains, to_apply, prune_unapplied, map_sequences, out) ==
    multi_map_in_static_method(
        "clip_vector_norm", <<x, max_norm, p>>, <<>>,
        key_chains, to_apply, prune_unapplied, map_sequences, out)

Container_clip_vector_norm_Swapped(self, max_norm, p, key_chains, to_apply, prune_unapplied, map_sequences, out) ==
    Container_static_clip_vector_norm(self, max_norm, p, key_chains, prune_unapplied, to_apply, map_sequences, out)

\* general.py 84-150
Container_clip_vector_norm(self, max_norm, p, key_chains, to_apply, prune_unapplied, map_sequences, out) ==
    Container_static_clip_vector_norm(self, max_norm, p, key_chains, to_apply, prune_unapplied, map_sequences, out)

\* general.py 153-229
Container_static_all_equal(x1, x2, equality_matrix, key_chains, to_apply, prune_unapplied, map_sequences) ==
    multi_map_in_static_method(
        "all_equal", <<x1, x2>>, <<Kw("equality_matrix", equality_matrix)>>,
        key_chains, to_apply, prune_unapplied, map_sequences, NoOut)

\* general.py 231-326
Container_all_equal(self, x2, equality_matrix, key_chains, to_apply, prune_unapplied, map_sequences) ==
    Container_static_all_equal(self, x2, equality_matrix, key_chains, to_apply, prune_unapplied, map_sequences)

\* general.py 329-382
Container_static_gather(params, indices, axis, key_chains, to_apply, prune_unapplied, map_sequences, out) ==
    multi_map_in_static_method(
        "gather", <<params, indices>>, <<Kw("axis", axis)>>,
        key_chains, to_apply, prune_unapplied, map_sequences, out)

\* general.py 384-436
Container_gather(self, indices, axis, key_chains, to_apply, prune_unapplied, map_sequences, out) ==
    Container_static_gather(self, indices, axis, key_chains, to_apply, prune_unapplied, map_sequences, out)

\* general.py 439-518
Container_static_gather_nd(params, indices, key_chains, to_apply, prune_unapplied, map_sequences, out) ==
    multi_map_in_static_method(
        "gather_nd", <<params, indices>>, <<>>,
        key_chains, to_apply, prune_unapplied, map_sequences, out)

\* general.py 520-579
Container_gather_nd(self, indices, key_chains, to_apply, prune_unapplied, map_sequences, out) ==
    Container_static_gather_nd(self, indices, key_chains, to_apply, prune_unapplied, map_sequences, out)

\* general.py 582-637
Container_static_einops_rearrange(x, pattern, key_chains, to_apply, prune_unapplied, map_sequences, axes_lengths, out) ==
    multi_map_in_static_method(
        "einops_rearrange", <<x, pattern>>, <<>> \o axes_lengths,
        key_chains, to_apply, prune_unapplied, map_sequences, out)

\* general.py 639-693
Container_einops_rearrange(self, pattern, key_chains, to_apply, prune_unapplied, map_sequences, axes_lengths, out) ==
    Container_static_einops_rearrange(self, pattern, key_chains, to_apply, prune_unapplied, map_sequences, axes_lengths, out)

\* general.py 696-755
Container_static_einops_reduce(x, pattern, reduction, key_chains, to_apply, prune_unapplied, map_sequences, axes_lengths, out) ==
    multi_map_in_static_method(
        "einops_reduce", <<x, pattern, reduction>>, <<>> \o axes_lengths,
        key_chains, to_apply, prune_unapplied, map_sequences, out)

\* general.py 757-815
Container_einops_reduce(self, pattern, reduction, key_chains, to_apply, prune_unapplied, map_sequences, axes_lengths, out) ==
    Container_static_einops_reduce(self, pattern, reduction, key_chains, to_apply, prune_unapplied, map_sequences, axes_lengths, out)

\* general.py 818-872
Container_static_einops_repeat(x, pattern, key_chains, to_apply, prune_unapplied, map_sequences, axes_lengths, out) ==
    multi_map_in_static_method(
        "einops_repeat", <<x, pattern>>, <<>> \o axes_lengths,
        key_chains, to_apply, prune_unapplied, map_sequences, out)

\* general.py 874-927
Container_einops_repeat(self, pattern, key_chains, to_apply, prune_unapplied, map_sequences, axes_lengths, out) ==
    Container_static_einops_repeat(self, pattern, key_chains, to_apply, prune_unapplied, map_sequences, axes_lengths, out)

\* general.py 998-1061
Container_static_to_numpy(x, key_chains, to_apply, prune_unapplied, map_sequences) ==
    multi_map_in_static_method(
        "to_numpy", <<x>>, <<>>,
        key_chains, to_apply, prune_unapplied, map_sequences, NoOut)

\* general.py 929-995
Container_to_numpy(self, key_chains, to_apply, prune_unapplied, map_sequences) ==
    Container_static_to_numpy(self, key_chains, to_apply, prune_unapplied, map_sequences)

\* general.py 1064-1163
Container_static_stable_divide(numerator, denominator, min_denominator, key_chains, to_apply, prune_unapplied, map_sequences) ==
    multi_map_in_static_method(
        "stable_divide", <<numerator, denominator, min_denominator>>, <<>>,
        key_chains, to_apply, prune_unapplied, map_sequences, NoOut)

\* general.py 1165-1251
Container_stable_divide(self, denominator, min_denominator, key_chains, to_apply, prune_unapplied, map_sequences) ==
    Container_static_stable_divide(self, denominator, min_denominator, key_chains, to_apply, prune_unapplied, map_sequences)

\* manipulation.py 120-201
Container_static_reshape(x, shape, key_chains, to_apply, prune_unapplied, map_sequences, copy, out) ==
    multi_map_in_static_method(
        "reshape", <<x, shape>>, <<Kw("copy", copy)>>,
        key_chains, to_apply, prune_unapplied, map_sequences, out)

\* manipulation.py 203-276
Container_reshape(self, shape, key_chains, to_apply, prune_unapplied, map_sequences, copy, out) ==
    Container_static_reshape(self, shape, key_chains, to_apply, prune_unapplied, map_sequences, copy, out)

Container_static_roll_AxisFirst(x, shift, axis, key_chains, to_apply, prune_unapplied, map_sequences, out) ==
    multi_map_in_static_method(
        "roll", <<x, axis, shift>>, <<>>,
        key_chains, to_apply, prune_unapplied, map_sequences, out)

\* manipulation.py 279-367
Container_static_roll(x, shift, axis, key_chains, to_apply, prune_unapplied, map_sequences, out) ==
    multi_map_in_static_method(
        "roll", <<x, shift, axis>>, <<>>,
        key_chains, to_apply, prune_unapplied, map_sequences, out)

Container_roll_AxisFirst(self, shift, axis, key_chains, to_apply, prune_unapplied, map_sequences, out) ==
    Container_static_roll(self, axis, shift, key_chains, to_apply, prune_unapplied, map_sequences, out)

\* manipulation.py 369-441
Container_roll(self, shift, axis, key_chains, to_apply, prune_unapplied, map_sequences, out) ==
    Container_static_roll(self, shift, axis, key_chains, to_apply, prune_unapplied, map_sequences, out)

\* manipulation.py 528-564
Container_static_repeat(x, repeats, axis, key_chains, to_apply, prune_unapplied, map_sequences, out) ==
    multi_map_in_static_method(
        "repeat", <<x, repeats, axis>>, <<>>,
        key_chains, to_apply, prune_unapplied, map_sequences, out)

\* manipulation.py 566-601
Container_repeat(self, repeats, axis, key_chains, to_apply, prune_unapplied, map_sequences, out) ==
    Container_static_repeat(self, repeats, axis, key_chains, to_apply, prune_unapplied, map_sequences, out)

\* manipulation.py 697-777
Container_static_clip(x, x_min, x_max, key_chains, to_apply, prune_unapplied, map_sequences, out) ==
    multi_map_in_static_method(
        "clip", <<x, x_min, x_max>>, <<>>,
        key_chains, to_apply, prune_unapplied, map_sequences, out)

\* manipulation.py 779-844
Container_clip(self, x_min, x_max, key_chains, to_apply, prune_unapplied, map_sequences, out) ==
    Container_static_clip(self, x_min, x_max, key_chains, to_apply, prune_unapplied, map_sequences, out)

\* losses.py 11-96
Container_static_cross_entropy(true, pred, axis, epsilon, key_chains, to_apply, prune_unapplied, map_sequences, out) ==
    multi_map_in_static_method(
        "cross_entropy", <<true, pred>>, <<Kw("axis", axis), Kw("epsilon", epsilon)>>,
        key_chains, to_apply, prune_unapplied, map_sequences, out)

\* losses.py 98-169
Container_cross_entropy(self, pred, axis, epsilon, key_chains, to_apply, prune_unapplied, map_sequences, out) ==
    Container_static_cross_entropy(self, pred, axis, epsilon, key_chains, to_apply, prune_unapplied, map_sequences, out)

\* losses.py 172-251
Container_static_binary_cross_entropy(true, pred, epsilon, key_chains, to_apply, prune_unapplied, map_sequences, out) ==
    multi_map_in_static_method(
        "binary_cross_entropy", <<true, pred>>, <<Kw("epsilon", epsilon)>>,
        key_chains, to_apply, prune_unapplied, map_sequences, out)

\* losses.py 253-318
Container_binary_cross_entropy(self, pred, epsilon, key_chains, to_apply, prune_unapplied, map_sequences, out) ==
    Container_static_binary_cross_entropy(self, pred, epsilon, key_chains, to_apply, prune_unapplied, map_sequences, out)

\* losses.py 321-405
Container_static_sparse_cross_entropy(true, pred, axis, epsilon, key_chains, to_apply, prune_unapplied, map_sequences, out) ==
    multi_map_in_static_method(
        "sparse_cross_entropy", <<true, pred>>, <<Kw("axis", axis), Kw("epsilon", epsilon)>>,
        key_chains, to_apply, prune_unapplied, map_sequences, out)

\* losses.py 407-479
Container_sparse_cross_entropy(self, pred, axis, epsilon, key_chains, to_apply, prune_unapplied, map_sequences, out) ==
    Container_static_sparse_cross_entropy(self, pred, axis, epsilon, key_chains, to_apply, prune_unapplied, map_sequences, out)


\* a Python list of arrays given as one operand
ListOf(xs) == [kind |-> "list", data |-> xs[1].data, by |-> <<[fn |-> "list", pos |-> xs, kw |-> <<>>]>>]

\* an Array as the value and the out of a call
Single(x) == <<Entry("", x)>>

\* ------------------------------------------------------------------------
\* ContainerWithManipulation: concat and stack, built on multi_map
\* (ivy/container/manipulation.py)
\* ------------------------------------------------------------------------
\* conts = [self] and then the Containers of xs
ContsOf(self, xs) ==
    LET cs == SelectSeq(xs, LAMBDA x : x.cont)
    IN  <<self>> \o [i \in 1..Len(cs) |-> cs[i].c]

\* the None that stands for self is left out
ArraysOf_WithoutSelf(xs) == [i \in 1..Len(xs) |-> IF xs[i].cont THEN None ELSE xs[i].leaf]

\* arrays = [None] and then, for each x of xs, None for a Container and x
\* itself otherwise
ArraysOf(xs) == <<None>> \o [i \in 1..Len(xs) |-> IF xs[i].cont THEN None ELSE xs[i].leaf]

\* [a if ivy.exists(a) else xs_.pop(0) for a in arrays]
PopInto(arrays, xs_) ==
    [i \in 1..Len(arrays) |->
        IF exists(arrays[i])
        THEN arrays[i]
        ELSE xs_[Cardinality({j \in 1..i : ~exists(arrays[j])})]]

\* xs_ after the pops
AfterPops(arrays, xs_) ==
    SubSeq(xs_, Cardinality({j \in 1..Len(arrays) : ~exists(arrays[j])}) + 1, Len(xs_))

\* the lambda of concat and stack: operand names the keyword of the list
ListLambda(op, operand, arrays, axis, xs_) ==
    IF is_array(xs_[1])
    THEN [ret |-> ivy_fn(op, <<>>, <<Kw(operand, ListOf(PopInto(arrays, xs_))), Kw("axis", axis)>>),
          xs_ |-> AfterPops(arrays, xs_)]
    ELSE [ret |-> ListOf(xs_), xs_ |-> xs_]

Container_concat_IntoSelf(self, xs, axis, key_chains, to_apply, prune_unapplied, map_nests, out) ==
    LET conts == ContsOf(self, xs)
        arrays == ArraysOf(xs)
    IN  handle_inplace(
            multi_map(
                [xs_ \in {LeavesAt(conts, kc, map_nests) : kc \in CommonKeyChains(conts)} |->
                    ListLambda("concat", "xs", arrays, axis, xs_)],
                conts, key_chains, to_apply, prune_unapplied, map_nests),
            IF out.given THEN out ELSE [given |-> TRUE, c |-> self, obj |-> "self"])

\* manipulation.py 14-50
Container_concat(self, xs, axis, key_chains, to_apply, prune_unapplied, map_nests, out) ==
    LET conts == ContsOf(self, xs)
        arrays == ArraysOf(xs)
    IN  handle_inplace(
            multi_map(
                [xs_ \in {LeavesAt(conts, kc, map_nests) : kc \in CommonKeyChains(conts)} |->
                    ListLambda("concat", "xs", arrays, axis, xs_)],
                conts, key_chains, to_apply, prune_unapplied, map_nests),
            out)

\* manipulation.py 489-525
Container_stack(self, x, axis, key_chains, to_apply, prune_unapplied, map_nests, out) ==
    LET conts == ContsOf(self, x)
        arrays == ArraysOf(x)
    IN  handle_inplace(
            multi_map(
                [xs_ \in {LeavesAt(conts, kc, map_nests) : kc \in CommonKeyChains(conts)} |->
                    ListLambda("stack", "x", arrays, axis, xs_)],
                conts, key_chains, to_apply, prune_unapplied, map_nests),
            out)

\* ivy.<name>(*pos, **kw, out=out): with out the result is written into out,
\* whose shape must be that of the result, and out is returned
ivy_fn_out(name, pos, kw, out) ==
    LET r == ivy_fn(name, pos, kw) IN
    IF ~out.given
    THEN Ret("new", Single(r), {}, "none", <<>>, {})
    ELSE IF Len(LeafAt(out.c, "").data) # Len(r.data)
         THEN Ret("none", <<>>, {}, "ShapeMismatchError", <<>>, {})
         ELSE Ret(out.obj, Single(r), {}, "none", <<>>, {out.obj})

\* ------------------------------------------------------------------------
\* ArrayWithGeneral, ArrayWithManipulation (ivy/array/general.py,
\* manipulation.py): each method forwards to the ivy function of its name
\* ------------------------------------------------------------------------
\* general.py 13-54
Array_all_equal(self, x2, equality_matrix) ==
    ivy_fn_out("all_equal", <<self, x2>>, <<Kw("equality_matrix", equality_matrix)>>, NoOut)

\* general.py 56-85
Array_gather(self, indices, axis, out) ==
    ivy_fn_out("gather", <<Data(self), indices, axis>>, <<>>, out)

\* general.py 87-124
Array_gather_nd(self, indices, out) ==
    ivy_fn_out("gather_nd", <<self, indices>>, <<>>, out)

\* general.py 126-157
Array_einops_rearrange(self, pattern, axes_lengths, out) ==
    ivy_fn_out("einops_rearrange", <<Data(self), pattern>>, <<>> \o axes_lengths, out)

\* general.py 159-195
Array_einops_reduce(self, pattern, reduction, axes_lengths, out) ==
    ivy_fn_out("einops_reduce", <<Data(self), pattern, reduction>>, <<>> \o axes_lengths, out)

\* general.py 197-227
Array_einops_repeat(self, pattern, axes_lengths, out) ==
    ivy_fn_out("einops_repeat", <<Data(self), pattern>>, <<>> \o axes_lengths, out)

\* general.py 229-260
Array_to_numpy(self) ==
    ivy_fn_out("to_numpy", <<self>>, <<>>, NoOut)

\* general.py 262-309
Array_stable_divide(self, denominator, min_denominator) ==
    ivy_fn_out("stable_divide", <<self, denominator>>, <<Kw("min_denominator", min_denominator)>>, NoOut)

\* general.py 311-351
Array_clip_vector_norm(self, max_norm, p, out) ==
    ivy_fn_out("clip_vector_norm", <<self, max_norm, p>>, <<>>, out)

\* manipulation.py 13-23
Array_concat(self, xs, axis, out) ==
    ivy_fn_out("concat", <<ListOf(<<Data(self)>> \o xs), axis>>, <<>>, out)

\* manipulation.py 25-31
Array_flip(self, axis, out) ==
    ivy_fn_out("flip", <<Data(self), axis>>, <<>>, out)

\* manipulation.py 33-39
Array_expand_dims(self, axis, out) ==
    ivy_fn_out("expand_dims", <<Data(self), axis>>, <<>>, out)

\* manipulation.py 41-87
Array_reshape(self, shape, copy, out) ==
    ivy_fn_out("reshape", <<Data(self), shape>>, <<Kw("copy", copy)>>, out)

\* manipulation.py 89-95
Array_permute_dims(self, axes, out) ==
    ivy_fn_out("permute_dims", <<Data(self), axes>>, <<>>, out)

Array_roll_NoOut(self, shift, axis, out) ==
    ivy_fn_out("roll", <<Data(self)>>, <<Kw("shift", shift), Kw("axis", axis)>>, NoOut)

\* manipulation.py 97-143
Array_roll(self, shift, axis, out) ==
    ivy_fn_out("roll", <<Data(self)>>, <<Kw("shift", shift), Kw("axis", axis)>>, out)

\* manipulation.py 145-163
Array_squeeze(self, axis, out) ==
    ivy_fn_out("squeeze", <<Data(self)>>, <<Kw("axis", axis)>>, out)

\* manipulation.py 165-175
Array_stack(self, x, axis, out) ==
    ivy_fn_out("stack", <<ListOf(<<Data(self)>> \o x), axis>>, <<>>, out)

\* manipulation.py 177-214
Array_clip(self, x_min, x_max, out) ==
    ivy_fn_out("clip", <<Data(self)>>, <<Kw("x_min", x_min), Kw("x_max", x_max)>>, out)

\* manipulation.py 216-235
Array_repeat(self, repeats, axis, out) ==
    ivy_fn_out("repeat", <<Data(self)>>, <<Kw("repeats", repeats), Kw("axis", axis)>>, out)

\* manipulation.py 237-243
Array_tile(self, reps, out) ==
    ivy_fn_out("tile", <<Data(self)>>, <<Kw("reps", reps)>>, out)

\* manipulation.py 245-252
Array_constant_pad(self, pad_width, value, out) ==
    ivy_fn_out("constant_pad", <<Data(self)>>, <<Kw("pad_width", pad_width), Kw("value", value)>>, out)

\* manipulation.py 254-260
Array_zero_pad(self, pad_width, out) ==
    ivy_fn_out("zero_pad", <<Data(self)>>, <<Kw("pad_width", pad_width)>>, out)

\* manipulation.py 262-269
Array_swapaxes(self, axis0, axis1, out) ==
    ivy_fn_out("swapaxes", <<Data(self)>>, <<Kw("axis0", axis0), Kw("axis1", axis1)>>, out)


\* the methods of ContainerWithManipulation that are built on self.map
MapMethods ==
    {"expand_dims", "permute_dims", "flip", "squeeze", "tile",
     "constant_pad", "zero_pad", "swapaxes"}

\* the instance methods that have a static_ counterpart
StaticMethods ==
    {"clip_vector_norm", "all_equal", "gather", "gather_nd",
     "einops_rearrange", "einops_reduce", "einops_repeat", "to_numpy",
     "stable_divide", "reshape", "roll", "repeat", "clip", "cross_entropy",
     "binary_cross_entropy", "sparse_cross_entropy"}

\* the methods of ContainerWithManipulation that are built on multi_map
MultiMapMethods == {"concat", "stack"}

\* the Container methods that take out
ContainerMethodsWithOut ==
    {"expand_dims", "permute_dims", "flip", "squeeze", "tile",
     "constant_pad", "zero_pad", "swapaxes", "clip_vector_norm", "gather",
     "gather_nd", "einops_rearrange", "einops_reduce", "einops_repeat",
     "reshape", "roll", "repeat", "clip", "cross_entropy",
     "binary_cross_entropy", "sparse_cross_entropy"}

\* the Array methods, and those that take out
ArrayMethods ==
    {"all_equal", "gather", "gather_nd", "einops_rearrange",
     "einops_reduce", "einops_repeat", "to_numpy", "stable_divide",
     "clip_vector_norm", "concat", "flip", "expand_dims", "reshape",
     "permute_dims", "roll", "squeeze", "stack", "clip", "repeat", "tile",
     "constant_pad", "zero_pad", "swapaxes"}

ArrayMethodsWithOut ==
    {"gather", "gather_nd", "einops_rearrange", "einops_reduce",
     "einops_repeat", "clip_vector_norm", "concat", "flip", "expand_dims",
     "reshape", "permute_dims", "roll", "squeeze", "stack", "clip",
     "repeat", "tile", "constant_pad", "zero_pad", "swapaxes"}

\* c.<op>(...): the call of an instance method of a Container, the op's own
\* arguments taken from a in order
ContainerMethod(op, self, a, key_chains, to_apply, prune_unapplied, map_sequences, out) ==
    CASE op = "concat" ->
          Container_concat(self, a[1], a[2].leaf, key_chains, to_apply, prune_unapplied, map_sequences, out)
      [] op = "stack" ->
          Container_stack(self, a[1], a[2].leaf, key_chains, to_apply, prune_unapplied, map_sequences, out)
      [] op = "expand_dims" ->
          Container_expand_dims(self, a[1].leaf, key_chains, to_apply, prune_unapplied, map_sequences, out)
      [] op = "permute_dims" ->
          Container_permute_dims(self, a[1].leaf, key_chains, to_apply, prune_unapplied, map_sequences, out)
      [] op = "flip" ->
          Container_flip(self, a[1].leaf, key_chains, to_apply, prune_unapplied, map_sequences, out)
      [] op = "squeeze" ->
          Container_squeeze(self, a[1].leaf, key_chains, to_apply, prune_unapplied, map_sequences, out)
      [] op = "tile" ->
          Container_tile(self, a[1].leaf, key_chains, to_apply, prune_unapplied, map_sequences, out)
      [] op = "constant_pad" ->
          Container_constant_pad(self, a[1].leaf, a[2].leaf, key_chains, to_apply, prune_unapplied, map_sequences, out)
      [] op = "zero_pad" ->
          Container_zero_pad(self, a[1].leaf, a[2].leaf, key_chains, to_apply, prune_unapplied, map_sequences, out)
      [] op = "swapaxes" ->
          Container_swapaxes(self, a[1].leaf, a[2].leaf, key_chains, to_apply, prune_unapplied, map_sequences, out)
      [] op = "clip_vector_norm" ->
          Container_clip_vector_norm(Cont(self), a[1], a[2], key_chains, to_apply, prune_unapplied, map_sequences, out)
      [] op = "all_equal" ->
          Container_all_equal(Cont(self), a[1], a[2], key_chains, to_apply, prune_unapplied, map_sequences)
      [] op = "gather" ->
          Container_gather(Cont(self), a[1], a[2], key_chains, to_apply, prune_unapplied, map_sequences, out)
      [] op = "gather_nd" ->
          Container_gather_nd(Cont(self), a[1], key_chains, to_apply, prune_unapplied, map_sequences, out)
      [] op = "einops_rearrange" ->
          Container_einops_rearrange(Cont(self), a[1], key_chains, to_apply, prune_unapplied, map_sequences, <<Kw("h", a[3])>>, out)
      [] op = "einops_reduce" ->
          Container_einops_reduce(Cont(self), a[1], a[2], key_chains, to_apply, prune_unapplied, map_sequences, <<Kw("h", a[3])>>, out)
      [] op = "einops_repeat" ->
          Container_einops_repeat(Cont(self), a[1], key_chains, to_apply, prune_unapplied, map_sequences, <<Kw("h", a[3])>>, out)
      [] op = "to_numpy" ->
          Container_to_numpy(Cont(self), key_chains, to_apply, prune_unapplied, map_sequences)
      [] op = "stable_divide" ->
          Container_stable_divide(Cont(self), a[1], a[2], key_chains, to_apply, prune_unapplied, map_sequences)
      [] op = "reshape" ->
          Container_reshape(Cont(self), a[1], key_chains, to_apply, prune_unapplied, map_sequences, a[3], out)
      [] op = "roll" ->
          Container_roll(Cont(self), a[1], a[2], key_chains, to_apply, prune_unapplied, map_sequences, out)
      [] op = "repeat" ->
          Container_repeat(Cont(self), a[1], a[2], key_chains, to_apply, prune_unapplied, map_sequences, out)
      [] op = "clip" ->
          Container_clip(Cont(self), a[1], a[2], key_chains, to_apply, prune_unapplied, map_sequences, out)
      [] op = "cross_entropy" ->
          Container_cross_entropy(Cont(self), a[1], a[2], a[3], key_chains, to_apply, prune_unapplied, map_sequences, out)
      [] op = "binary_cross_entropy" ->
          Container_binary_cross_entropy(Cont(self), a[1], a[2], key_chains, to_apply, prune_unapplied, map_sequences, out)
      [] op = "sparse_cross_entropy" ->
          Container_sparse_cross_entropy(Cont(self), a[1], a[2], a[3], key_chains, to_apply, prune_unapplied, map_sequences, out)

\* Container.static_<op>(c, ...): the call of the static method
StaticMethod(op, x, a, key_chains, to_apply, prune_unapplied, map_sequences, out) ==
    CASE op = "clip_vector_norm" ->
          Container_static_clip_vector_norm(x, a[1], a[2], key_chains, to_apply, prune_unapplied, map_sequences, out)
      [] op = "all_equal" ->
          Container_static_all_equal(x, a[1], a[2], key_chains, to_apply, prune_unapplied, map_sequences)
      [] op = "gather" ->
          Container_static_gather(x, a[1], a[2], key_chains, to_apply, prune_unapplied, map_sequences, out)
      [] op = "gather_nd" ->
          Container_static_gather_nd(x, a[1], key_chains, to_apply, prune_unapplied, map_sequences, out)
      [] op = "einops_rearrange" ->
          Container_static_einops_rearrange(x, a[1], key_chains, to_apply, prune_unapplied, map_sequences, <<Kw("h", a[3])>>, out)
      [] op = "einops_reduce" ->
          Container_static_einops_reduce(x, a[1], a[2], key_chains, to_apply, prune_unapplied, map_sequences, <<Kw("h", a[3])>>, out)
      [] op = "einops_repeat" ->
          Container_static_einops_repeat(x, a[1], key_chains, to_apply, prune_unapplied, map_sequences, <<Kw("h", a[3])>>, out)
      [] op = "to_numpy" ->
          Container_static_to_numpy(x, key_chains, to_apply, prune_unapplied, map_sequences)
      [] op = "stable_divide" ->
          Container_static_stable_divide(x, a[1], a[2], key_chains, to_apply, prune_unapplied, map_sequences)
      [] op = "reshape" ->
          Container_static_reshape(x, a[1], key_chains, to_apply, prune_unapplied, map_sequences, a[3], out)
      [] op = "roll" ->
          Container_static_roll(x, a[1], a[2], key_chains, to_apply, prune_unapplied, map_sequences, out)
      [] op = "repeat" ->
          Container_static_repeat(x, a[1], a[2], key_chains, to_apply, prune_unapplied, map_sequences, out)
      [] op = "clip" ->
          Container_static_clip(x, a[1], a[2], key_chains, to_apply, prune_unapplied, map_sequences, out)
      [] op = "cross_entropy" ->
          Container_static_cross_entropy(x, a[1], a[2], a[3], key_chains, to_apply, prune_unapplied, map_sequences, out)
      [] op = "binary_cross_entropy" ->
          Container_static_binary_cross_entropy(x, a[1], a[2], key_chains, to_apply, prune_unapplied, map_sequences, out)
      [] op = "sparse_cross_entropy" ->
          Container_static_sparse_cross_entropy(x, a[1], a[2], a[3], key_chains, to_apply, prune_unapplied, map_sequences, out)

\* arr.<op>(...): the call of an instance method of an Array
ArrayMethod(op, self, a, out) ==
    CASE op = "all_equal" ->
          Array_all_equal(self, a[1].leaf, a[2].leaf)
      [] op = "gather" ->
          Array_gather(self, a[1].leaf, a[2].leaf, out)
      [] op = "gather_nd" ->
          Array_gather_nd(self, a[1].leaf, out)
      [] op = "einops_rearrange" ->
          Array_einops_rearrange(self, a[1].leaf, <<Kw("h", a[3].leaf)>>, out)
      [] op = "einops_reduce" ->
          Array_einops_reduce(self, a[1].leaf, a[2].leaf, <<Kw("h", a[3].leaf)>>, out)
      [] op = "einops_repeat" ->
          Array_einops_repeat(self, a[1].leaf, <<Kw("h", a[3].leaf)>>, out)
      [] op = "to_numpy" ->
          Array_to_numpy(self)
      [] op = "stable_divide" ->
          Array_stable_divide(self, a[1].leaf, a[2].leaf)
      [] op = "clip_vector_norm" ->
          Array_clip_vector_norm(self, a[1].leaf, a[2].leaf, out)
      [] op = "concat" ->
          Array_concat(self, <<Leaf("native", a[1].leaf.data)>>, a[2].leaf, out)
      [] op = "flip" ->
          Array_flip(self, a[1].leaf, out)
      [] op = "expand_dims" ->
          Array_expand_dims(self, a[1].leaf, out)
      [] op = "reshape" ->
          Array_reshape(self, a[1].leaf, a[3].leaf, out)
      [] op = "permute_dims" ->
          Array_permute_dims(self, a[1].leaf, out)
      [] op = "roll" ->
          Array_roll(self, a[1].leaf, a[2].leaf, out)
      [] op = "squeeze" ->
          Array_squeeze(self, a[1].leaf, out)
      [] op = "stack" ->
          Array_stack(self, <<Leaf("native", a[1].leaf.data)>>, a[2].leaf, out)
      [] op = "clip" ->
          Array_clip(self, a[1].leaf, a[2].leaf, out)
      [] op = "repeat" ->
          Array_repeat(self, a[1].leaf, a[2].leaf, out)
      [] op = "tile" ->
          Array_tile(self, a[1].leaf, out)
      [] op = "constant_pad" ->
          Array_constant_pad(self, a[1].leaf, a[2].leaf, out)
      [] op = "zero_pad" ->
          Array_zero_pad(self, a[1].leaf, out)
      [] op = "swapaxes" ->
          Array_swapaxes(self, a[1].leaf, a[2].leaf, out)

\* ------------------------------------------------------------------------
\* Calls of Container and Array methods
\* ------------------------------------------------------------------------
KeyChains == {"a", "b/c", "b/d"}

\* the Containers the methods are tried on: arrays, a scalar and a list of
\* arrays as leaves, top-level and nested keys
SampleContainers ==
    { << Entry("a", Leaf("Array", <<0, 1, 2>>)),
         Entry("b/c", Leaf("Array", <<3, 4, 5>>)),
         Entry("b/d", Scalar(7)) >>,
      << Entry("b/c", Leaf("native", <<1, 2>>)),
         Entry("b/d", Leaf("list", <<4, 5>>)),
         Entry("a", Leaf("Array", <<6>>)) >> }

SampleArrays == {Leaf("Array", <<0, 1, 2>>), Leaf("Array", <<3, 4>>)}

\* the values of the op's own arguments
ArgValues == {Val(Scalar(1)), Val(Scalar(2))}

\* argument lists in which any two positions differ in some list
ArgLists ==
    {a \in [1..3 -> ArgValues] :
        a \in {<<Val(Scalar(1)), Val(Scalar(2)), Val(Scalar(1))>>,
               <<Val(Scalar(1)), Val(Scalar(1)), Val(Scalar(2))>>,
               <<Val(Scalar(2)), Val(Scalar(1)), Val(Scalar(1))>>}}

\* key_chains=None or a set of key-chains
KeyChainArgs == {NoKeyChains} \cup SUBSET KeyChains

\* ivy.zeros_like of a Container of the given key-chains, in the order of c
ZerosLike(c, kcs) ==
    LET z == [i \in 1..Len(c) |->
                [kc |-> c[i].kc,
                 leaf |-> Leaf("Array", [j \in 1..Len(c[i].leaf.data) |-> 0]),
                 keep |-> c[i].kc \in kcs, applied |-> FALSE]]
    IN  Strip(z)

\* the out arguments tried with a Container: None, a Container with all the
\* key-chains of self, and one with the key-chain "a" only
ContainerOuts(c) == {NoOut, Out(ZerosLike(c, KeyChains)), Out(ZerosLike(c, {"a"}))}

\* the out arguments tried with an Array: None, an Array of the shape of
\* self, and one of another shape
ArrayOuts(x) ==
    {NoOut,
     Out(Single(Leaf("Array", [j \in 1..Len(x.data) |-> 0]))),
     Out(Single(Leaf("Array", [j \in 1..(Len(x.data) + 1) |-> 0])))}

\* the Containers passed along with self: one with the key-chains of c in the
\* same order, one with them in another order, one with a leaf at the node
\* "b", and one with the key-chain "a" only
Twin(c) ==
    [i \in 1..Len(c) |->
        Entry(c[i].kc,
              [c[i].leaf EXCEPT !.data = [j \in 1..Len(c[i].leaf.data) |-> c[i].leaf.data[j] + 10]])]

Reordered(c) == [i \in 1..Len(c) |-> c[Len(c) + 1 - i]]

Shallow(c) ==
    IF c[1].kc = "a"
    THEN <<Entry("a", LeafAt(c, "a")), Entry("b", Scalar(5))>>
    ELSE <<Entry("b", Scalar(5)), Entry("a", LeafAt(c, "a"))>>

OnlyA(c) == <<Entry("a", LeafAt(c, "a"))>>

OtherContainers(c) == {Twin(c), Reordered(c), Shallow(c), OnlyA(c)}

\* a Container of shifts with the key-chains of c: 1 at the first, -1 at the
\* others
ShiftsLike(c) == [i \in 1..Len(c) |-> Entry(c[i].kc, Scalar(IF i = 1 THEN 1 ELSE -1))]

\* the xs of concat and stack: arrays, Containers, and both
XsArgs(c, x) ==
    {<<Val(x)>>, <<Val(x), Cont(Twin(c))>>, <<Cont(Twin(c)), Val(x)>>,
     <<Cont(Twin(c)), Val(x), Cont(Reordered(c))>>} \cup {<<Cont(o)>> : o \in OtherContainers(c)}

\* the arguments of a static method called with Containers and plain values
MixedArgLists(c) == [1..3 -> {Val(Scalar(1)), Val(None), Cont(ShiftsLike(c))}]

MixedKeyChainArgs == {NoKeyChains, {"a"}, {"b/c", "b/d"}}

\* the Containers given to multi_map after self
MultiMapArgs(c) ==
    {<<Cont(o)>> : o \in OtherContainers(c)} \cup {<<Cont(Twin(c)), Cont(Reordered(c))>>}

\* what a call of map or multi_map hands back
AsRet(result) ==
    Ret(IF result.err = "none" THEN "new" ELSE "none",
        result.c, result.applied, result.err, result.calls, result.written)

\* ContainerBase.multi_map(fn, [self] + cs, ...), fn a function that calls
\* ivy.fn on the leaves it is given
MultiMapCall(self, cs, key_chains, to_apply, prune_unapplied, map_nests) ==
    LET conts == ContsOf(self, cs)
    IN  AsRet(multi_map(
            [xs \in {LeavesAt(conts, kc, map_nests) : kc \in CommonKeyChains(conts)} |->
                [ret |-> ivy_fn("fn", xs, <<>>), xs_ |-> xs]],
            conts, key_chains, to_apply, prune_unapplied, map_nests))

\* self.map(lambda x, kc: x, ...)
MapCall(self, key_chains, to_apply, prune_unapplied, map_sequences) ==
    AsRet(map(self, [x \in LeavesOf(self) |-> x],
              key_chains, to_apply, prune_unapplied, map_sequences))

\* self after the call: written only when self was passed to be written
SelfAfter(r) == IF "self" \in r.written THEN r.c ELSE c_self

NoCallYet ==
    [recv |-> "none", op |-> "none", a |-> [i \in 1..3 |-> Val(Scalar(1))],
     key_chains |-> NoKeyChains, to_apply |-> TRUE, prune_unapplied |-> FALSE,
     map_sequences |-> FALSE, out |-> NoOut]

NoRet == Ret("none", <<>>, {}, "none", <<>>, {})

TheCall(recv, op, a, key_chains, to_apply, prune_unapplied, map_sequences, out) ==
    [recv |-> recv, op |-> op, a |-> a,
     key_chains |-> key_chains, to_apply |-> to_apply,
     prune_unapplied |-> prune_unapplied, map_sequences |-> map_sequences,
     out |-> out]

\* c.<op>(*a, key_chains, to_apply, prune_unapplied, map_sequences, out=out)
CallContainerMethod ==
    /\ call.recv = "none"
    /\ \E op \in MapMethods \cup StaticMethods, a \in ArgLists,
       key_chains \in KeyChainArgs, to_apply \in BOOLEAN,
       prune_unapplied \in BOOLEAN, map_sequences \in BOOLEAN,
       out \in ContainerOuts(c_self) :
        /\ out.given => op \in ContainerMethodsWithOut
        /\ call' = TheCall("Container", op, a, key_chains, to_apply,
                           prune_unapplied, map_sequences, out)
        /\ ret' = ContainerMethod(op, c_self, a, key_chains, to_apply,
                                  prune_unapplied, map_sequences, out)
        /\ c_self' = SelfAfter(ret')
        /\ UNCHANGED <<bvars, a_self>>

\* Container.static_<op>(c, *a, key_chains, ..., out=out)
CallStaticMethod ==
    /\ call.recv = "none"
    /\ \E op \in StaticMethods, a \in ArgLists,
       key_chains \in KeyChainArgs, to_apply \in BOOLEAN,
       prune_unapplied \in BOOLEAN, map_sequences \in BOOLEAN,
       out \in ContainerOuts(c_self) :
        /\ out.given => op \in ContainerMethodsWithOut
        /\ call' = TheCall("static", op, a, key_chains, to_apply,
                           prune_unapplied, map_sequences, out)
        /\ ret' = StaticMethod(op, Cont(c_self), a, key_chains, to_apply,
                               prune_unapplied, map_sequences, out)
        /\ c_self' = SelfAfter(ret')
        /\ UNCHANGED <<bvars, a_self>>

\* arr.<op>(*a, out=out)
CallArrayMethod ==
    /\ call.recv = "none"
    /\ \E op \in ArrayMethods, a \in ArgLists, out \in ArrayOuts(a_self) :
        /\ out.given => op \in ArrayMethodsWithOut
        /\ call' = TheCall("Array", op, a, NoKeyChains, TRUE, FALSE, FALSE, out)
        /\ ret' = ArrayMethod(op, a_self, a, out)
        /\ c_self' = SelfAfter(ret')
        /\ UNCHANGED <<bvars, a_self>>

\* ivy.<op>(x, *a, out=out) on an Array
CallIvyFunction ==
    /\ call.recv = "none"
    /\ \E op \in ArrayMethodsWithOut, a \in ArgLists, out \in ArrayOuts(a_self) :
        /\ call' = TheCall("function", op, a, NoKeyChains, TRUE, FALSE, FALSE, out)
        /\ ret' = ivy_fn_out(op, <<a_self, a[1].leaf, a[2].leaf>>, <<>>, out)
        /\ c_self' = SelfAfter(ret')
        /\ UNCHANGED <<bvars, a_self>>

\* c.concat(xs, axis, ...) and c.stack(x, axis, ...)
CallConcatOrStack ==
    /\ call.recv = "none"
    /\ \E op \in MultiMapMethods, xs \in XsArgs(c_self, a_self),
          key_chains \in KeyChainArgs, to_apply \in BOOLEAN,
          prune_unapplied \in BOOLEAN, map_nests \in BOOLEAN,
          out \in ContainerOuts(c_self) :
        /\ call' = TheCall("Container", op, <<xs, Val(Scalar(0))>>, key_chains, to_apply,
                           prune_unapplied, map_nests, out)
        /\ ret' = ContainerMethod(op, c_self, <<xs, Val(Scalar(0))>>, key_chains, to_apply,
                                  prune_unapplied, map_nests, out)
        /\ c_self' = SelfAfter(ret')
        /\ UNCHANGED <<bvars, a_self>>

\* c.<op>(*a, ...) and Container.static_<op>(x, *a, ...) with x a Container
\* or an array and the other arguments Containers or plain values
CallStaticMixed ==
    /\ call.recv = "none"
    /\ \E op \in StaticMethods, recv \in {"Container", "static", "static_array"},
          a \in MixedArgLists(c_self), key_chains \in MixedKeyChainArgs,
          to_apply \in BOOLEAN, prune_unapplied \in BOOLEAN :
        /\ call' = TheCall(recv, op, a, key_chains, to_apply, prune_unapplied, FALSE, NoOut)
        /\ ret' = IF recv = "Container"
                  THEN ContainerMethod(op, c_self, a, key_chains, to_apply,
                                       prune_unapplied, FALSE, NoOut)
                  ELSE StaticMethod(op, IF recv = "static" THEN Cont(c_self) ELSE Val(a_self),
                                    a, key_chains, to_apply, prune_unapplied, FALSE, NoOut)
        /\ c_self' = SelfAfter(ret')
        /\ UNCHANGED <<bvars, a_self>>

\* ContainerBase.multi_map(fn, [c] + cs, key_chains, ...)
CallMultiMap ==
    /\ call.recv = "none"
    /\ \E cs \in MultiMapArgs(c_self), key_chains \in KeyChainArgs,
          to_apply \in BOOLEAN, prune_unapplied \in BOOLEAN, map_nests \in BOOLEAN :
        /\ call' = TheCall("multi_map", "fn", <<cs, Val(None)>>, key_chains, to_apply,
                           prune_unapplied, map_nests, NoOut)
        /\ ret' = MultiMapCall(c_self, cs, key_chains, to_apply, prune_unapplied, map_nests)
        /\ c_self' = SelfAfter(ret')
        /\ UNCHANGED <<bvars, a_self>>

\* c.map(identity, key_chains, ...)
CallMap ==
    /\ call.recv = "none"
    /\ \E key_chains \in KeyChainArgs, to_apply \in BOOLEAN,
          prune_unapplied \in BOOLEAN, map_sequences \in BOOLEAN :
        /\ call' = TheCall("map", "identity", <<<<>>, Val(None)>>, key_chains, to_apply,
                           prune_unapplied, map_sequences, NoOut)
        /\ ret' = MapCall(c_self, key_chains, to_apply, prune_unapplied, map_sequences)
        /\ c_self' = SelfAfter(ret')
        /\ UNCHANGED <<bvars, a_self>>

\* the result is dropped and the next call can be made
DropResult ==
    /\ call.recv # "none"
    /\ call' = NoCallYet
    /\ ret' = NoRet
    /\ UNCHANGED <<bvars, c_self, a_self>>

BIdle ==
    /\ installed = Backends
    /\ backend_stack = <<>>
    /\ log = <<>>
    /\ fn = "none"
    /\ pc = "idle"
    /\ nested = FALSE
    /\ gt_backend = DefaultBackend
    /\ test_unsupported = FALSE
    /\ exit_kind = "none"
    /\ exit_pc = "none"
    /\ depth_at_set = -1
    /\ n_unset = 0
    /\ excluded = <<>>

CInit ==
    /\ BIdle
    /\ c_self \in SampleContainers
    /\ a_self \in SampleArrays
    /\ (c_self[1].kc = "a") = (Len(a_self.data) = 3)
    /\ call = NoCallYet
    /\ ret = NoRet

CNext ==
    \/ CallContainerMethod
    \/ CallStaticMethod
    \/ CallArrayMethod
    \/ CallIvyFunction
    \/ CallConcatOrStack
    \/ CallStaticMixed
    \/ CallMultiMap
    \/ CallMap
    \/ DropResult

ContainerSpec == CInit /\ [][CNext]_vars

\* ------------------------------------------------------------------------
\* The backend specification
\* ------------------------------------------------------------------------
BInit ==
    /\ installed \in {S \in SUBSET Backends : "numpy" \in S}
    /\ backend_stack = <<>>
    /\ log = <<>>
    /\ fn = "none"
    /\ pc = "idle"
    /\ nested = FALSE
    /\ gt_backend = DefaultBackend
    /\ test_unsupported = FALSE
    /\ exit_kind = "none"
    /\ exit_pc = "none"
    /\ depth_at_set = -1
    /\ n_unset = 0
    /\ excluded = <<>>
    /\ c_self = <<>>
    /\ a_self = None
    /\ call = NoCallYet
    /\ ret = NoRet

BNext ==
    \/ \E b \in Backends : SetBackend(b)
    \/ UnsetBackend
    \/ ReturnToCaller
    \/ \E b \in Backends : GradientTest_call(b)
    \/ GradientTest_pre
    \/ GradientTest_set
    \/ GradientTest_check
    \/ GradientTest_compute
    \/ GradientTest_unset
    \/ GradientTest_value
    \/ GradientTest_return
    \/ \E b \in Backends : TestMethod_call(b)
    \/ TestMethod_pre
    \/ TestMethod_set
    \/ TestMethod_compute
    \/ TestMethod_unset
    \/ TestMethod_value
    \/ \E b \in Backends : TestFunction_call(b)
    \/ TestFunction_pre
    \/ TestFunction_set
    \/ TestFunction_check
    \/ TestFunction_args
    \/ TestFunction_ground_truth
    \/ TestFunction_unset
    \/ TestFunction_gradients
    \/ TestFunction_value
    \/ \E b \in Backends : TestFrontendFunction_call(b)
    \/ TestFrontendFunction_pre
    \/ TestFrontendFunction_set
    \/ TestFrontendFunction_check
    \/ TestFrontendFunction_args
    \/ TestFrontendFunction_frontend
    \/ TestFrontendFunction_unset
    \/ TestFrontendFunction_value

Init == BInit

Next == BNext

Spec == Init /\ [][Next]_vars

\* ------------------------------------------------------------------------
\* Backend claims
\* ------------------------------------------------------------------------
IsSet(i) == log[i].op = "set" /\ log[i].ok

IsUnset(i) == log[i].op = "unset"

SetsIn(i, j) == Cardinality({k \in i..j : IsSet(k)})

UnsetsIn(i, j) == Cardinality({k \in i..j : IsUnset(k)})

\* the set_backend at position i has been undone: some later unset_backend is
\* the first one to outnumber the set_backend calls made after i
Undone(i) ==
    \E j \in (i + 1)..Len(log) :
        IsUnset(j) /\ UnsetsIn(i + 1, j) = SetsIn(i + 1, j) + 1

LiveSets == {i \in 1..Len(log) : IsSet(i) /\ ~Undone(i)}

MostRecentLive == CHOOSE i \in LiveSets : \A k \in LiveSets : k <= i

\* C2: after any sequence of set_backend / unset_backend calls the active
\* backend is the one of the most recent set_backend not yet undone by an
\* unset_backend, the default when there is none, and the stack holds exactly
\* the set_backend calls not yet undone.
C2_BackendIsLifo ==
    /\ Len(backend_stack) = Cardinality(LiveSets)
    /\ current_backend =
          IF LiveSets = {} THEN DefaultBackend ELSE log[MostRecentLive].b

\* set(A); set(B); unset() has happened and A is active
C2_Witness ==
    /\ Len(log) >= 3
    /\ IsSet(1) /\ IsSet(2) /\ IsUnset(3)
    /\ log[1].b # log[2].b
    /\ Len(log) = 3
    /\ current_backend = log[1].b

\* C3: a set_backend call that fails with UnavailableBackendError leaves the
\* backend stack and current_backend() exactly as they were before the call.
C3_FailedSetChangesNothing ==
    [][ ( /\ Len(log') = Len(log) + 1
          /\ log'[Len(log')].op = "set"
          /\ ~log'[Len(log')].ok )
        => ( /\ backend_stack' = backend_stack
             /\ current_backend_of(backend_stack') = current_backend ) ]_vars

\* a failed set_backend was the last call, made while a non-default backend was active
C3_Witness ==
    /\ Len(log) >= 2
    /\ log[Len(log)].op = "set"
    /\ ~log[Len(log)].ok
    /\ backend_stack # <<>>
    /\ current_backend # DefaultBackend

\* the helper f has executed its set_backend and has been left
LeftAfterSet(f) == fn = f /\ pc = "exit" /\ depth_at_set >= 0

\* exactly one unset_backend matched the helper's set_backend
Restored == n_unset = 1 /\ Len(backend_stack) = depth_at_set

\* C4: test_frontend_function restores the backend on every exit path that
\* follows its set_backend(frontend): exactly one unset_backend, and the stack
\* depth on exit equals the depth on entry.
C4_FrontendRestored == LeftAfterSet("test_frontend_function") => Restored

\* C5: gradient_test restores the backend on every exit path that follows
\* its set_backend(ground_truth_backend).
C5_GradientRestored == LeftAfterSet("gradient_test") => Restored

\* test_function has executed the block's set_backend and is outside the block
TestFunctionBlockLeft ==
    /\ fn = "test_function"
    /\ depth_at_set >= 0
    /\ \/ pc \in {"tf_after", "tf_value"}
       \/ pc = "exit"

\* C6: every path through test_function's ground-truth block executes exactly
\* one unset_backend for its set_backend, so the stack depth after the block
\* equals the depth before it.
C6_TestFunctionRestored == TestFunctionBlockLeft => Restored

\* the block was left by the inner handler's return and by an exception
C6_Witness ==
    /\ TestFunctionBlockLeft
    /\ pc = "exit"
    /\ exit_pc = "tf_args"
    /\ exit_kind = "return"
    /\ backend_stack # <<>>

\* C7: test_method restores the backend on every exit path that follows its
\* set_backend(ground_truth_backend), exceptions included.
C7_MethodRestored == LeftAfterSet("test_method") => Restored

\* ------------------------------------------------------------------------
\* Container and Array claims
\* ------------------------------------------------------------------------
\* what the call cl returns
CallResult(cl) ==
    CASE cl.recv = "Container" ->
          ContainerMethod(cl.op, c_self, cl.a, cl.key_chains, cl.to_apply,
                          cl.prune_unapplied, cl.map_sequences, cl.out)
      [] cl.recv = "static" ->
          StaticMethod(cl.op, Cont(c_self), cl.a, cl.key_chains, cl.to_apply,
                       cl.prune_unapplied, cl.map_sequences, cl.out)
      [] cl.recv = "static_array" ->
          StaticMethod(cl.op, Val(a_self), cl.a, cl.key_chains, cl.to_apply,
                       cl.prune_unapplied, cl.map_sequences, cl.out)
      [] cl.recv = "multi_map" ->
          MultiMapCall(c_self, cl.a[1], cl.key_chains, cl.to_apply,
                       cl.prune_unapplied, cl.map_sequences)
      [] cl.recv = "map" ->
          MapCall(c_self, cl.key_chains, cl.to_apply, cl.prune_unapplied, cl.map_sequences)
      [] cl.recv = "Array" -> ArrayMethod(cl.op, a_self, cl.a, cl.out)
      [] cl.recv = "function" ->
          ivy_fn_out(cl.op, <<a_self, cl.a[1].leaf, cl.a[2].leaf>>, <<>>, cl.out)

\* the value of a Container without the order of its keys
AsMapping(c) == {c[i] : i \in 1..Len(c)}

\* the last call was made with out and returned
ReturnedWithOut == call.recv # "none" /\ call.out.given /\ ret.err = "none"

WithoutOut == CallResult([call EXCEPT !.out = NoOut])

\* C1 as stated: a call made with out returns the object passed as out, and
\* its values equal the values the same call returns without out.
C1_OutIsReturnedWithAllValues ==
    ReturnedWithOut =>
        /\ ret.id = "out"
        /\ AsMapping(ret.c) = AsMapping(WithoutOut.c)

\* C1 as amended: a call made with out returns the object passed as out, it
\* has the key-chains of out, and at each of them its leaf is the leaf the
\* same call returns without out; when out has all the key-chains of that
\* result (always so for an Array) the values are equal.
C1_OutIsReturned ==
    ReturnedWithOut =>
        /\ ret.id = "out"
        /\ KeyChainsOf(ret.c) = KeyChainsOf(call.out.c)
        /\ \A kc \in KeyChainsOf(ret.c) : LeafAt(ret.c, kc) = LeafAt(WithoutOut.c, kc)
        /\ KeyChainsOf(call.out.c) = KeyChainsOf(WithoutOut.c)
              => AsMapping(ret.c) = AsMapping(WithoutOut.c)
        /\ call.recv \in {"Array", "function"}
              => AsMapping(ret.c) = AsMapping(WithoutOut.c)

\* an Array method and a Container method have returned their out
C1_Witness ==
    /\ ReturnedWithOut
    /\ ret.id = "out"
    /\ \/ call.recv = "Array" /\ call.op = "roll"
       \/ /\ call.recv = "Container" /\ call.op = "expand_dims"
          /\ KeyChainsOf(call.out.c) = {"a"}
          /\ Len(WithoutOut.c) = 3
    /\ ret.c # call.out.c

\* C8: an instance method with a static_ counterpart, called without out,
\* returns what the static method returns for the same Container and the
\* same arguments: the same key-chains in the same order, the same leaves,
\* the same error if any.
C8_InstanceEqualsStatic ==
    (call.recv = "Container" /\ call.op \in StaticMethods /\ ~call.out.given) =>
        LET st == CallResult([call EXCEPT !.recv = "static"])
        IN  ret.c = st.c /\ ret.err = st.err /\ ret.id = st.id

\* an instance method was called with every selector argument off its default
C8_Witness ==
    /\ call.recv = "Container"
    /\ call.op = "clip_vector_norm"
    /\ ~call.out.given
    /\ call.key_chains = {"a"}
    /\ ~call.to_apply
    /\ call.prune_unapplied
    /\ call.a[1] # call.a[2]
    /\ ret.err = "none"
    /\ KeyChainsOf(ret.c) = {"b/c", "b/d"}

\* the last call was a Container call without out
ContainerCallNoOut ==
    /\ call.recv \in {"Container", "static"}
    /\ call.op \in MapMethods \cup StaticMethods
    /\ \A i \in 1..3 : ~call.a[i].cont
    /\ ~call.out.given

\* what the same call returns when no key-chain filter is given
Unfiltered == CallResult([call EXCEPT !.key_chains = NoKeyChains])

\* C9: with key_chains = {k} and to_apply=True the leaf at k is replaced by
\* the operation's result; with prune_unapplied=False every other leaf is
\* unchanged, with prune_unapplied=True every other leaf is absent.
C9_OnlyListedLeafTransformed ==
    \A k \in KeyChainsOf(c_self) :
        (ContainerCallNoOut /\ call.key_chains = {k} /\ call.to_apply) =>
            /\ ret.err = "none"
            /\ ret.applied = {k}
            /\ k \in KeyChainsOf(ret.c)
            /\ LeafAt(ret.c, k) = LeafAt(Unfiltered.c, k)
            /\ is_array(LeafAt(c_self, k)) => LeafAt(ret.c, k) # LeafAt(c_self, k)
            /\ IF call.prune_unapplied
               THEN KeyChainsOf(ret.c) = {k}
               ELSE /\ KeyChainsOf(ret.c) = KeyChainsOf(c_self)
                    /\ \A o \in KeyChainsOf(c_self) \ {k} :
                          LeafAt(ret.c, o) = LeafAt(c_self, o)

\* a map-based method and a static method have transformed one array leaf
\* of three, keeping and pruning the others
C9_Witness ==
    /\ ContainerCallNoOut
    /\ call.key_chains = {"b/c"}
    /\ call.to_apply
    /\ call.op \in {"expand_dims", "roll"}
    /\ LeafAt(ret.c, "b/c") # LeafAt(c_self, "b/c")
    /\ Len(c_self) = 3
    /\ Len(ret.c) \in {1, 3}

\* C10: with key_chains = K and to_apply=False the operation is applied to
\* exactly the leaves whose key-chain is not in K; the leaves in K are passed
\* through unchanged with prune_unapplied=False and absent with
\* prune_unapplied=True; the leaves transformed are the complement of those
\* transformed with to_apply=True.
C10_AllButListedTransformed ==
    (ContainerCallNoOut /\ call.key_chains # NoKeyChains /\ ~call.to_apply) =>
        LET K == call.key_chains
            all == KeyChainsOf(c_self)
        IN  /\ ret.err = "none"
            /\ ret.applied = all \ K
            /\ \A kc \in all \ K :
                  /\ kc \in KeyChainsOf(ret.c)
                  /\ LeafAt(ret.c, kc) = LeafAt(Unfiltered.c, kc)
                  /\ is_array(LeafAt(c_self, kc)) => LeafAt(ret.c, kc) # LeafAt(c_self, kc)
            /\ \A kc \in all \cap K :
                  IF call.prune_unapplied
                  THEN kc \notin KeyChainsOf(ret.c)
                  ELSE kc \in KeyChainsOf(ret.c) /\ LeafAt(ret.c, kc) = LeafAt(c_self, kc)
            /\ KeyChainsOf(ret.c) \subseteq all
            /\ CallResult([call EXCEPT !.to_apply = TRUE]).applied = all \ ret.applied

\* flip was applied to all leaves but two, which were pruned
C10_Witness ==
    /\ ContainerCallNoOut
    /\ call.op = "flip"
    /\ call.key_chains = {"a", "b/d"}
    /\ ~call.to_apply
    /\ call.prune_unapplied
    /\ KeyChainsOf(ret.c) = {"b/c"}
    /\ LeafAt(ret.c, "b/c") # LeafAt(c_self, "b/c")

\* the key-chains of a Container in their order
KeySeq(c) == [i \in 1..Len(c) |-> c[i].kc]

\* the last call was a multi_map over self and the Containers of its first
\* argument: multi_map itself, or concat or stack
MultiMapped ==
    /\ \/ call.recv = "multi_map"
       \/ call.recv = "Container" /\ call.op \in MultiMapMethods
    /\ ~call.out.given

\* the Containers walked by the last multi_map
Walked == ContsOf(c_self, call.a[1])

\* C11: multi_map over Containers of identical key structure, with no
\* key-chain filter, calls fn once for every leaf key-chain and for nothing
\* else, in the depth-first key-insertion order of the first Container, each
\* time with the leaves of the Containers at that key-chain; the result has
\* the key structure of the inputs.
C11_MultiMapVisitsEachLeafOnceInOrder ==
    (/\ MultiMapped
     /\ call.key_chains = NoKeyChains
     /\ \A j \in 1..Len(Walked) : KeyChainsOf(Walked[j]) = KeyChainsOf(c_self)) =>
        /\ ret.err = "none"
        /\ Len(ret.calls) = Len(c_self)
        /\ \A i \in 1..Len(ret.calls) :
              /\ ret.calls[i].kc = c_self[i].kc
              /\ Len(ret.calls[i].xs) = Len(Walked)
              /\ \A j \in 1..Len(Walked) :
                    ret.calls[i].xs[j] =
                        Enter(LeafAt(Walked[j], c_self[i].kc), call.map_sequences)
        /\ KeySeq(ret.c) = KeySeq(c_self)

\* multi_map walked three Containers with the same keys, one of them in
\* another order, the nested keys first
C11_Witness ==
    /\ call.recv = "multi_map"
    /\ call.key_chains = NoKeyChains
    /\ call.a[1] = <<Cont(Twin(c_self)), Cont(Reordered(c_self))>>
    /\ KeySeq(c_self) = <<"b/c", "b/d", "a">>
    /\ Len(ret.calls) = 3
    /\ ret.calls[1].xs[1] # ret.calls[1].xs[2]

\* a Container has nothing to give at a key-chain of self, or has a
\* key-chain that is neither one of self nor a node above one
Diverging(o) ==
    \/ \E kc \in KeyChainsOf(c_self) :
           kc \notin KeyChainsOf(o) /\ Ancestors(kc) \cap KeyChainsOf(o) = {}
    \/ \E kc \in KeyChainsOf(o) :
           kc \notin KeyChainsOf(c_self) /\ ~(\E k \in KeyChainsOf(c_self) : kc \in Ancestors(k))

\* C12: multi_map over Containers that diverge in key structure raises
\* StructureMismatchError and returns nothing; where a Container has a leaf
\* at a node under which self is nested, that leaf is given to fn at every
\* key-chain below the node and no error is raised.
C12_DivergingStructuresRaise ==
    (MultiMapped /\ call.key_chains = NoKeyChains) =>
        IF \E j \in 1..Len(Walked) : Diverging(Walked[j])
        THEN ret.err = "StructureMismatchError" /\ ret.c = <<>> /\ ret.id = "none"
        ELSE /\ ret.err = "none"
             /\ \A i \in 1..Len(ret.calls), j \in 1..Len(Walked) :
                   \A n \in Ancestors(ret.calls[i].kc) \cap KeyChainsOf(Walked[j]) :
                       ret.calls[i].xs[j] = Enter(LeafAt(Walked[j], n), call.map_sequences)

\* multi_map raised for a Container with fewer keys
C12_Witness ==
    /\ call.recv = "multi_map"
    /\ call.a[1] = <<Cont(OnlyA(c_self))>>
    /\ Len(c_self) = 3
    /\ ret.err = "StructureMismatchError"

\* multi_map gave the leaf at "b" of the second Container to fn at "b/c"
C12_BroadcastWitness ==
    /\ call.recv = "multi_map"
    /\ call.a[1] = <<Cont(Shallow(c_self))>>
    /\ ret.err = "none"
    /\ \E i \in 1..Len(ret.calls) : ret.calls[i].kc = "b/c" /\ ret.calls[i].xs[2] = Scalar(5)

\* what an argument gives to the ivy function at a key-chain: a Container its
\* leaf there, anything else itself
ArgAt(arg, kc) ==
    IF arg.cont THEN Enter(LeafAt(arg.c, kc), call.map_sequences) ELSE arg.leaf

\* the first argument of the last static call
FirstArg == IF call.recv = "static_array" THEN Val(a_self) ELSE Cont(c_self)

\* the operands of the call that made a leaf, positional ones first
Operands(leaf) ==
    leaf.by[1].pos \o [i \in 1..Len(leaf.by[1].kw) |-> leaf.by[1].kw[i].v]

\* C13: a static method calls the ivy function of its name at every visited
\* key-chain with, for each Container argument, its leaf at that key-chain,
\* and, for every other argument, the argument itself; static_roll(x, shift,
\* axis) calls roll(x[k], shift[k], axis[k]) and static_cross_entropy(true,
\* pred, axis, epsilon) calls cross_entropy(true[k], pred[k], axis=, epsilon=).
C13_PlainArgumentsAreShared ==
    (call.recv \in {"static", "static_array"} /\ ~call.out.given /\ ret.err = "none") =>
        \A kc \in ret.applied :
            LET made == LeafAt(ret.c, kc).by[1]
                ops == Operands(LeafAt(ret.c, kc))
            IN  /\ made.fn = call.op
                /\ ops[1] = ArgAt(FirstArg, kc)
                /\ \A i \in 2..Len(ops) : \E n \in 1..3 : ops[i] = ArgAt(call.a[n], kc)
                /\ call.op = "roll" =>
                      /\ made.pos = <<ArgAt(FirstArg, kc), ArgAt(call.a[1], kc), ArgAt(call.a[2], kc)>>
                      /\ made.kw = <<>>
                /\ call.op = "cross_entropy" =>
                      /\ made.pos = <<ArgAt(FirstArg, kc), ArgAt(call.a[1], kc)>>
                      /\ made.kw = <<Kw("axis", ArgAt(call.a[2], kc)),
                                     Kw("epsilon", ArgAt(call.a[3], kc))>>

\* static_cross_entropy(array, Container, None, 1) was applied at the three
\* key-chains of the Container
C13_Witness ==
    /\ call.recv = "static_array"
    /\ call.op = "cross_entropy"
    /\ call.a[1].cont
    /\ call.a[2] = Val(None)
    /\ call.a[3] = Val(Scalar(1))
    /\ ret.err = "none"
    /\ ret.applied = {"a", "b/c", "b/d"}
    /\ LeafAt(ret.c, "b/c").by[1].pos = <<a_self, Scalar(-1)>>

\* the last call was a Container method whose result goes through
\* handle_inplace, and the method itself raised nothing
HandledInplace ==
    /\ call.recv \in {"Container", "static"}
    /\ WithoutOut.err = "none"

\* C14: handle_inplace(result_container, out) with out None returns a new
\* object, the result_container, and writes nothing; with out given it
\* returns the object out, which keeps its key-chains in their order and has
\* at each of them the leaf of result_container, and it is out that was
\* written.
C14_HandleInplaceWritesOut ==
    HandledInplace =>
        IF ~call.out.given
        THEN /\ ret.id = "new"
             /\ ret.written \subseteq {"xs_"}
             /\ ret.err = "none"
        ELSE KeyChainsOf(call.out.c) \subseteq KeyChainsOf(WithoutOut.c) =>
                /\ ret.id = "out"
                /\ ret.err = "none"
                /\ "out" \in ret.written /\ "self" \notin ret.written
                /\ KeySeq(ret.c) = KeySeq(call.out.c)
                /\ \A i \in 1..Len(ret.c) :
                      ret.c[i].leaf = LeafAt(WithoutOut.c, call.out.c[i].kc)

\* squeeze and stack have written their result into out
C14_Witness ==
    /\ call.recv = "Container"
    /\ call.op \in {"squeeze", "stack"}
    /\ call.out.given
    /\ ret.id = "out"
    /\ Len(ret.c) = 3
    /\ \A i \in 1..3 : ret.c[i].leaf # call.out.c[i].leaf

\* C15: handle_inplace raises KeyChainMismatchError and returns nothing
\* whenever out has a key-chain that result_container does not have, as when
\* a method is called with key_chains, prune_unapplied=True and an out of the
\* full structure of self.
C15_MissingKeyChainRaises ==
    (/\ HandledInplace
     /\ call.out.given
     /\ ~(KeyChainsOf(call.out.c) \subseteq KeyChainsOf(WithoutOut.c))) =>
        /\ ret.err = "KeyChainMismatchError"
        /\ ret.id = "none"
        /\ ret.c = <<>>

\* expand_dims pruned two leaves and was given an out with all three
C15_Witness ==
    /\ call.recv = "Container"
    /\ call.op = "expand_dims"
    /\ call.key_chains = {"a"}
    /\ call.to_apply
    /\ call.prune_unapplied
    /\ KeyChainsOf(call.out.c) = {"a", "b/c", "b/d"}
    /\ KeyChainsOf(WithoutOut.c) = {"a"}
    /\ ret.err = "KeyChainMismatchError"

\* C16: a Container manipulation method (the map-based ones, concat and
\* stack) leaves the non-array leaves untouched: at each selected key-chain
\* whose leaf in self is not an array, the leaf of the result is self's leaf.
C16_NonArrayLeavesUntouched ==
    (/\ call.recv = "Container"
     /\ call.op \in MapMethods \cup MultiMapMethods
     /\ ~call.out.given
     /\ ~call.map_sequences
     /\ ret.err = "none") =>
        \A kc \in ret.applied :
            ~is_array(LeafAt(c_self, kc)) => LeafAt(ret.c, kc) = LeafAt(c_self, kc)

\* the same for the map-based methods alone
C16_MapBasedLeaveNonArrays ==
    (/\ call.recv = "Container"
     /\ call.op \in MapMethods
     /\ ~call.out.given
     /\ ~call.map_sequences
     /\ ret.err = "none") =>
        \A kc \in ret.applied :
            ~is_array(LeafAt(c_self, kc)) => LeafAt(ret.c, kc) = LeafAt(c_self, kc)

\* C17: an Array method calls the ivy function of its name with self._data
\* as the array operand (first in the list operand of concat and stack), with
\* the other operands taken from its arguments, and returns out when out is
\* given.
C17_ArrayMethodsForwardData ==
    (call.recv = "Array" /\ ret.err = "none") =>
        LET made == LeafAt(ret.c, "").by[1]
            ops == Operands(LeafAt(ret.c, ""))
        IN  /\ made.fn = call.op
            /\ IF call.op \in {"concat", "stack"}
               THEN ops[1].by[1].pos[1] = Data(a_self)
               ELSE ops[1] = Data(a_self)
            /\ \A i \in 2..Len(ops) : \E n \in 1..3 : ops[i] = call.a[n].leaf
            /\ call.out.given => ret.id = "out"

\* C18: a Container method called without out changes neither self nor a
\* Container passed to it, and returns a new Container; the list that concat
\* and stack consume is none of them.
C18_CallWithoutOutIsFunctional ==
    [][(/\ call'.recv \in {"Container", "static"}
        /\ ~call'.out.given
        /\ ret'.err = "none") =>
            /\ c_self' = c_self
            /\ ret'.id = "new"
            /\ ret'.written \cap {"self", "xs", "out"} = {}]_vars

\* concat without out has consumed the list of leaves it was given at each
\* key-chain and returned a new Container
C18_Witness ==
    /\ call.recv = "Container"
    /\ ~call.out.given
    /\ ret.err = "none"
    /\ ret.id = "new"
    /\ call.op = "concat"
    /\ call.a[1] = <<Val(a_self), Cont(Twin(c_self))>>
    /\ ret.written = {"xs_"}
    /\ ret.applied = {"a", "b/c", "b/d"}
    /\ ret.c # c_self

\* ivy.roll of a 1-D array with axis=None
roll(x, shift) == [i \in 1..Len(x) |-> x[((i - 1 - shift) % Len(x)) + 1]]

\* the elements of a leaf: of one that ivy.roll(x, shift, None) returned,
\* the rolled elements of x; of a given leaf, its own
ValueOf(leaf) ==
    IF leaf.by = <<>>
    THEN leaf.data
    ELSE IF /\ leaf.by[1].fn = "roll"
            /\ Len(leaf.by[1].pos) = 3
            /\ leaf.by[1].pos[2].kind = "scalar"
            /\ leaf.by[1].pos[3] = None
         THEN roll(leaf.by[1].pos[1].data, leaf.by[1].pos[2].data[1])
         ELSE <<>>

\* C19: roll(shift) with axis=None on a Container returns a Container with
\* the same keys in which every 1-D array leaf of length n has the element of
\* index i of the input at index (i + shift) mod n, the shift being the
\* argument or, when shift is a Container, its leaf at the same key-chain.
C19_RollShiftsEachLeaf ==
    (/\ call.recv \in {"Container", "static"}
     /\ call.op = "roll"
     /\ call.key_chains = NoKeyChains
     /\ ~call.out.given
     /\ ~call.map_sequences
     /\ call.a[1] # Val(None)
     /\ call.a[2] = Val(None)) =>
        /\ ret.err = "none"
        /\ KeySeq(ret.c) = KeySeq(c_self)
        /\ \A kc \in KeyChainsOf(c_self) :
              LET x == LeafAt(c_self, kc).data
                  y == ValueOf(LeafAt(ret.c, kc))
                  shift == ArgAt(call.a[1], kc).data[1]
                  n == Len(x)
              IN  is_array(LeafAt(c_self, kc)) =>
                      /\ Len(y) = n
                      /\ \A i \in 0..(n - 1) : y[((i + shift) % n) + 1] = x[i + 1]

\* {a: [0,1,2], b/c: [3,4,5]} rolled by the Container {a: 1, b/c: -1}
C19_Witness ==
    /\ call.recv = "Container"
    /\ call.op = "roll"
    /\ call.key_chains = NoKeyChains
    /\ call.a[1] = Cont(ShiftsLike(c_self))
    /\ call.a[2] = Val(None)
    /\ LeafAt(c_self, "a").data = <<0, 1, 2>>
    /\ ValueOf(LeafAt(ret.c, "a")) = <<2, 0, 1>>
    /\ ValueOf(LeafAt(ret.c, "b/c")) = <<4, 5, 3>>

\* {a: [0,1,2], b/c: [3,4,5]}.roll(1)
C19_ScalarWitness ==
    /\ call.recv = "Container"
    /\ call.op = "roll"
    /\ call.key_chains = NoKeyChains
    /\ call.a[1] = Val(Scalar(1))
    /\ call.a[2] = Val(None)
    /\ ValueOf(LeafAt(ret.c, "a")) = <<2, 0, 1>>
    /\ ValueOf(LeafAt(ret.c, "b/c")) = <<5, 3, 4>>

\* C20: c.map(identity) with key_chains=None returns a Container equal to c,
\* and so does c.map(identity).map(identity), for both settings of
\* prune_unapplied.
C20_IdentityMapIsIdempotent ==
    (call.recv = "map" /\ call.key_chains = NoKeyChains) =>
        /\ ret.err = "none"
        /\ ret.id = "new"
        /\ ret.c = c_self
        /\ MapCall(ret.c, NoKeyChains, call.to_apply, call.prune_unapplied,
                   call.map_sequences).c = c_self

\* the identity was mapped over a Container with nested keys and a list
\* leaf, entering the list, with prune_unapplied=True
C20_Witness ==
    /\ call.recv = "map"
    /\ call.key_chains = NoKeyChains
    /\ call.prune_unapplied
    /\ call.map_sequences
    /\ LeafAt(c_self, "b/d").kind = "list"
    /\ Len(ret.calls) = 3
    /\ ret.c = c_self

\* ------------------------------------------------------------------------
\* Test helpers as functions of their arguments (helpers.py)
\* ------------------------------------------------------------------------
MaxArgs == 3       \* arguments of the function under test

Min(a, b) == IF a < b THEN a ELSE b

Max(a, b) == IF a > b THEN a ELSE b

\* the positions of s that satisfy the test, in increasing order
Where(s, test) ==
    LET I == {i \in DOMAIN s : test[s[i]]}
    IN  CHOOSE q \in [1..Cardinality(I) -> I] :
            \A i, j \in 1..Cardinality(I) : i < j => q[i] < q[j]

\* s without its position i
Without(s, i) == SubSeq(s, 1, i - 1) \o SubSeq(s, i + 1, Len(s))

\* an argument of the function under test: a numpy array or a plain value
Ndarray(name) == [type |-> "ndarray", of |-> name]

PlainValue(name) == [type |-> "int", of |-> name]

\* all_as_kwargs_np: the arguments by keyword, in the order given
ArgNames == <<"x1", "x2", "x3", "x4">>

AllAsKwargs ==
    UNION {{[i \in 1..n |-> [k |-> ArgNames[i], v |-> IF i \in A THEN Ndarray(ArgNames[i])
                                                      ELSE PlainValue(ArgNames[i])]] :
                A \in SUBSET (1..n)} :
           n \in 1..MaxArgs}

\* 483-486
kwargs_to_args_n_kwargs(num_positional_args, kwargs) ==
    [args |-> [i \in 1..Min(num_positional_args, Len(kwargs)) |-> kwargs[i].v],
     kwargs |-> SubSeq(kwargs, Min(num_positional_args, Len(kwargs)) + 1, Len(kwargs))]

\* 1032-1045: a list shorter than the longest is filled with its first element
list_to_length(x, num_arrays) ==
    IF Len(x) < num_arrays THEN [i \in 1..num_arrays |-> x[1]] ELSE x

\* 753-771: ivy.array, then to_native if native, then as_cont if container
converted(x, native, container) ==
    [type |-> IF container THEN "Container" ELSE IF native THEN "native" ELSE "Array",
     of |-> x.of]

\* 716-789: the arrays among the arguments are converted as the flags say
create_args_kwargs(args_np, kwargs_np, input_dtypes, native_array_flags, container_flags) ==
    LET is_ndarray == [x \in {args_np[i] : i \in DOMAIN args_np}
                              \cup {kwargs_np[i].v : i \in DOMAIN kwargs_np} |->
                          x.type = "ndarray"]
        args_idxs == Where(args_np, is_ndarray)
        kwargs_idxs == Where([i \in DOMAIN kwargs_np |-> kwargs_np[i].v], is_ndarray)
        num_arg_vals == Len(args_idxs)
        num_arrays == num_arg_vals + Len(kwargs_idxs)
        nth(i, idxs) == CHOOSE n \in DOMAIN idxs : idxs[n] = i
        flag(flags, n) == n <= Len(flags) /\ flags[n]
    IN  IF num_arrays > 0 /\ num_arrays # Len(input_dtypes)
        THEN [err |-> "AssertionError", args |-> <<>>, kwargs |-> <<>>,
              num_arg_vals |-> 0, args_idxs |-> <<>>, kwargs_idxs |-> <<>>]
        ELSE [err |-> "none",
              args |-> [i \in DOMAIN args_np |->
                          IF is_ndarray[args_np[i]]
                          THEN converted(args_np[i],
                                         flag(native_array_flags, nth(i, args_idxs)),
                                         flag(container_flags, nth(i, args_idxs)))
                          ELSE args_np[i]],
              kwargs |-> [i \in DOMAIN kwargs_np |->
                          IF is_ndarray[kwargs_np[i].v]
                          THEN [k |-> kwargs_np[i].k,
                                v |-> converted(kwargs_np[i].v,
                                         flag(native_array_flags, num_arg_vals + nth(i, kwargs_idxs)),
                                         flag(container_flags, num_arg_vals + nth(i, kwargs_idxs)))]
                          ELSE kwargs_np[i]],
              num_arg_vals |-> num_arg_vals,
              args_idxs |-> args_idxs,
              kwargs_idxs |-> kwargs_idxs]

\* "i = 0; for i, a in enumerate(xs): if a: break": the first position that
\* holds, the last one when none does, the initial one for an empty list
\* (positions counted from 1)
first_true(xs) ==
    IF xs = <<>> THEN 1
    ELSE IF \E i \in DOMAIN xs : xs[i]
         THEN CHOOSE i \in DOMAIN xs : xs[i] /\ \A j \in 1..(i - 1) : ~xs[j]
         ELSE Len(xs)

NoInstance == [type |-> "none", of |-> "none"]

Called(how, instance, args, kwargs, err) ==
    [how |-> how, instance |-> instance, args |-> args, kwargs |-> kwargs, err |-> err]

\* the call is made with the instance kept among the arguments
run_Unpruned(made, native_array_flags, container_flags, instance_method) ==
    IF ~instance_method
    THEN Called("function", NoInstance, made.args, made.kwargs, "none")
    ELSE IF made.num_arg_vals > 0
         THEN Called("instance_method", made.args[made.args_idxs[1]], made.args, made.kwargs, "none")
         ELSE IF made.kwargs_idxs = <<>>
              THEN Called("none", NoInstance, <<>>, <<>>, "IndexError")
              ELSE Called("instance_method", made.kwargs[made.kwargs_idxs[1]].v,
                          made.args, made.kwargs, "none")

\* 1101-1135: the instance is taken out of the arguments and its method is
\* called with the rest, or the function is called with all of them
run(made, native_array_flags, container_flags, instance_method) ==
    IF ~instance_method
    THEN Called("function", NoInstance, made.args, made.kwargs, "none")
    ELSE LET is_instance == [i \in DOMAIN native_array_flags |->
                                ~native_array_flags[i] \/ container_flags[i]]
             arg_is_instance == SubSeq(is_instance, 1, Min(made.num_arg_vals, Len(is_instance)))
             kwarg_is_instance == SubSeq(is_instance, made.num_arg_vals + 1, Len(is_instance))
         IN  IF arg_is_instance # <<>> /\ \E i \in DOMAIN arg_is_instance : arg_is_instance[i]
             THEN LET i == first_true(arg_is_instance)
                  IN  Called("instance_method", made.args[made.args_idxs[i]],
                             Without(made.args, made.args_idxs[i]), made.kwargs, "none")
             ELSE LET i == first_true(kwarg_is_instance)
                  IN  IF i > Len(made.kwargs_idxs)
                      THEN Called("none", NoInstance, <<>>, <<>>, "IndexError")
                      ELSE Called("instance_method", made.kwargs[made.kwargs_idxs[i]].v,
                                  made.args, Without(made.kwargs, made.kwargs_idxs[i]), "none")

\* 1028-1135 of test_function, for a supported function: the flags are made
\* equally long, instance_method is kept only if the first array is an ivy
\* Array or Container, the arguments are split and converted, the call is made
test_function(all_as_kwargs_np, num_positional_args, input_dtypes, native_array_flags, container_flags, instance_method) ==
    LET num_arrays == Max(Len(input_dtypes), Max(Len(native_array_flags), Len(container_flags)))
        dtypes == list_to_length(input_dtypes, num_arrays)
        native == list_to_length(native_array_flags, num_arrays)
        container == list_to_length(container_flags, num_arrays)
        split == kwargs_to_args_n_kwargs(num_positional_args, all_as_kwargs_np)
        made == create_args_kwargs(split.args, split.kwargs, dtypes, native, container)
    IN  IF made.err # "none"
        THEN Called("none", NoInstance, <<>>, <<>>, made.err)
        ELSE run(made, native, container, instance_method /\ (~native[1] \/ container[1]))

\* the flag lists a test passes: one flag, or one per array
FlagLists(n) == [1..1 -> BOOLEAN] \cup [1..Max(n, 1) -> BOOLEAN]

NumArrays(kw) == Cardinality({i \in DOMAIN kw : kw[i].v.type = "ndarray"})

HelperCall(name, args) == [recv |-> name, args |-> args]

\* test_function(..., instance_method=..., **all_as_kwargs_np)
CallTestFunction ==
    /\ call.recv = "none"
    /\ \E kw \in AllAsKwargs, instance_method \in BOOLEAN :
       \E num_positional_args \in 0..Len(kw),
          input_dtypes \in {[i \in 1..n |-> "float32"] : n \in {1, Max(NumArrays(kw), 1)}},
          native_array_flags \in FlagLists(NumArrays(kw)),
          container_flags \in FlagLists(NumArrays(kw)) :
        /\ call' = HelperCall("test_function",
                       [all_as_kwargs_np |-> kw, num_positional_args |-> num_positional_args,
                        native_array_flags |-> native_array_flags,
                        container_flags |-> container_flags,
                        instance_method |-> instance_method])
        /\ ret' = test_function(kw, num_positional_args, input_dtypes,
                                native_array_flags, container_flags, instance_method)
    /\ UNCHANGED <<bvars, c_self, a_self>>

\* ------------------------------------------------------------------------
\* get_bounds (helpers.py 2037-2067)
\* ------------------------------------------------------------------------
MaxValue == 2      \* the largest magnitude a strategy draws
MaxDraws == 2      \* draws one get_bounds call makes

\* a number a strategy draws, or None; floats are counted in halves
Number(n) == [none |-> FALSE, v |-> n]

NoneValue == [none |-> TRUE, v |-> 0]

\* ivy.default(x, default_val)
default(x, default_val) == IF x.none THEN default_val ELSE x.v

abs(n) == IF n < 0 THEN -n ELSE n

is_int_dtype(dtype) == dtype \in {"int8", "uint8"}

\* 1761-1801: array_values(dtype, shape=2) draws two integers of the dtype's range
array_values(dtype) ==
    IF dtype = "uint8"
    THEN [1..2 -> 0..MaxValue]
    ELSE [1..2 -> (-MaxValue)..MaxValue]

\* 1960-2013: none_or_list_of_floats(dtype, size=2) draws two of None or a
\* finite float
none_or_list_of_floats(dtype) ==
    [1..2 -> {NoneValue} \cup {Number(n) : n \in (-2 * MaxValue)..(2 * MaxValue)}]

Redraw == [redraw |-> TRUE, low |-> NoneValue, high |-> NoneValue]

Bounds(low, high) == [redraw |-> FALSE, low |-> low, high |-> high]

\* the pair is returned as drawn and ordered, equal or not
get_bounds_Unchecked(dtype, values) ==
    IF is_int_dtype(dtype)
    THEN Bounds(Number(Min(abs(values[1]), abs(values[2]))), Number(Max(abs(values[1]), abs(values[2]))))
    ELSE IF ~values[1].none /\ ~values[2].none
         THEN Bounds(Number(Min(values[1].v, values[2].v)), Number(Max(values[1].v, values[2].v)))
         ELSE Bounds(values[1], values[2])

\* 2052-2067: one pass over the values drawn: the pair, or another draw
get_bounds(dtype, values) ==
    IF is_int_dtype(dtype)
    THEN LET low == Min(abs(values[1]), abs(values[2]))
             high == Max(abs(values[1]), abs(values[2]))
         IN  IF low = high THEN Redraw ELSE Bounds(Number(low), Number(high))
    ELSE LET sorted == ~values[1].none /\ ~values[2].none
             low == IF sorted THEN Number(Min(values[1].v, values[2].v)) ELSE values[1]
             high == IF sorted THEN Number(Max(values[1].v, values[2].v)) ELSE values[2]
         IN  IF default(low, 0) >= default(high, 2) THEN Redraw ELSE Bounds(low, high)

Drawing(n) == [returned |-> FALSE, draws |-> n, values |-> <<>>, low |-> NoneValue, high |-> NoneValue]

\* draw(get_bounds(dtype=dtype))
CallGetBounds ==
    /\ call.recv = "none"
    /\ \E dtype \in {"int8", "uint8", "float32"} :
          call' = HelperCall("get_bounds", [dtype |-> dtype])
    /\ ret' = Drawing(0)
    /\ UNCHANGED <<bvars, c_self, a_self>>

\* the strategy draws its values and returns the pair or draws again
GetBounds_draw ==
    /\ call.recv = "get_bounds"
    /\ ~ret.returned
    /\ ret.draws < MaxDraws
    /\ \E values \in IF is_int_dtype(call.args.dtype)
                     THEN array_values(call.args.dtype)
                     ELSE none_or_list_of_floats(call.args.dtype) :
          LET got == get_bounds(call.args.dtype, values)
          IN  ret' = IF got.redraw
                     THEN Drawing(ret.draws + 1)
                     ELSE [returned |-> TRUE, draws |-> ret.draws + 1, values |-> values,
                           low |-> got.low, high |-> got.high]
    /\ UNCHANGED <<bvars, c_self, a_self, call>>

\* ------------------------------------------------------------------------
\* check_unsupported_device_and_dtype (helpers.py 665-713)
\* ------------------------------------------------------------------------
MaxEntries == 2    \* (devices, dtypes) entries of a support table

Devices == {"cpu", "gpu"}

Dtypes == {"float32", "int8"}

\* a support table {"devices": [...], "dtypes": [...]}: entry i names the
\* devices devices[i] and the dtypes dtypes[i]
Table(entries) ==
    [devices |-> [i \in DOMAIN entries |-> entries[i].devices],
     dtypes |-> [i \in DOMAIN entries |-> entries[i].dtypes]]

TableEntries == [devices : SUBSET Devices \ {{}}, dtypes : SUBSET Dtypes \ {{}}]

Tables(n) == UNION {{Table(e) : e \in [1..k -> TableEntries]} : k \in 0..n}

\* "x in table["devices"]": an entry of the list is the device itself
in_list(x, list) == \E i \in DOMAIN list : list[i] = {x}

\* list.index(x)
index(list, x) == CHOOSE i \in DOMAIN list : list[i] = {x} /\ \A j \in 1..(i - 1) : list[j] # {x}

NoKwargs == [device |-> "none", dtype |-> "none"]

\* 665-713; kw holds the "device" and "dtype" entries of all_as_kwargs_np,
\* "none" when absent
check_unsupported_device_and_dtype(unsupported, supported, device, input_dtypes, kw) ==
    LET both == kw.device # "none" /\ kw.dtype # "none"
        found_unsupported ==
            \/ \E i \in DOMAIN unsupported.devices :
                  /\ device \in unsupported.devices[i]
                  /\ \E d \in DOMAIN input_dtypes : input_dtypes[d] \in unsupported.dtypes[i]
            \/ /\ both
               /\ in_list(kw.device, unsupported.devices)
               /\ kw.dtype \in unsupported.dtypes[index(unsupported.devices, kw.device)]
        not_supported ==
            \E i \in DOMAIN supported.devices :
                \/ /\ device \in supported.devices[i]
                   /\ \E d \in DOMAIN input_dtypes : input_dtypes[d] \notin supported.dtypes[i]
                \/ device \notin supported.devices[i]
                \/ /\ both
                   /\ in_list(kw.device, supported.devices)
                   /\ kw.dtype \notin supported.dtypes[index(supported.devices, kw.device)]
    IN  found_unsupported \/ not_supported

\* check_unsupported_device_and_dtype(fn=fn, device=device, input_dtypes=...,
\* all_as_kwargs_np=...) for a function with the two tables
CallCheckUnsupported ==
    /\ call.recv = "none"
    /\ \E unsupported \in Tables(1), supported \in Tables(MaxEntries), device \in Devices,
          input_dtypes \in {<<"float32">>, <<"int8">>, <<"float32", "int8">>},
          kw \in {NoKwargs} \cup [device : Devices, dtype : Dtypes] :
        /\ call' = HelperCall("check_unsupported_device_and_dtype",
                       [unsupported |-> unsupported, supported |-> supported,
                        device |-> device, input_dtypes |-> input_dtypes, kw |-> kw])
        /\ ret' = check_unsupported_device_and_dtype(unsupported, supported, device,
                                                     input_dtypes, kw)
    /\ UNCHANGED <<bvars, c_self, a_self>>

\* test_unsupported_function(fn=fn, args=args, kwargs=kwargs) for an fn that
\* raises or returns
CallTestUnsupportedFunction ==
    /\ call.recv = "none"
    /\ \E fn_raises \in BOOLEAN :
        /\ call' = HelperCall("test_unsupported_function", [fn_raises |-> fn_raises])
        /\ ret' = test_unsupported_function(fn_raises)
    /\ UNCHANGED <<bvars, c_self, a_self>>

HInit ==
    /\ BIdle
    /\ c_self = <<>>
    /\ a_self = None
    /\ call = NoCallYet
    /\ ret = NoRet

HNext ==
    \/ CallTestFunction
    \/ CallGetBounds
    \/ GetBounds_draw
    \/ CallCheckUnsupported
    \/ CallTestUnsupportedFunction
    \/ DropResult

HelperSpec == HInit /\ [][HNext]_vars

\* the arrays of a call in call order: the positional ones, then the keyword ones
ArraysInCallOrder(kw) == SelectSeq([i \in DOMAIN kw |-> kw[i].v], LAMBDA x : x.type = "ndarray")

ArgumentsOf(r) == r.args \o [i \in DOMAIN r.kwargs |-> r.kwargs[i].v]

\* C21: when test_function runs the call as an instance method, the instance
\* is the first array argument in call order (the first positional array if
\* there is one, otherwise the first keyword array), it is an ivy Array or a
\* Container, and it is not among the arguments passed to the method, which
\* are all the others.
C21_InstanceIsFirstArrayAndPruned ==
    (call.recv = "test_function" /\ ret.how = "instance_method") =>
        LET kw == call.args.all_as_kwargs_np
            split == kwargs_to_args_n_kwargs(call.args.num_positional_args, kw)
            positional == SelectSeq(split.args, LAMBDA x : x.type = "ndarray")
            keyword == ArraysInCallOrder(split.kwargs)
        IN  /\ ArraysInCallOrder(kw) # <<>>
            /\ ret.instance.of = ArraysInCallOrder(kw)[1].of
            /\ ret.instance.of = IF positional # <<>> THEN positional[1].of ELSE keyword[1].of
            /\ ret.instance.type \in {"Array", "Container"}
            /\ \A i \in DOMAIN ArgumentsOf(ret) : ArgumentsOf(ret)[i].of # ret.instance.of
            /\ [i \in DOMAIN ArgumentsOf(ret) |-> ArgumentsOf(ret)[i].of]
                   = [i \in 1..(Len(kw) - 1) |-> Without(kw, first_true([j \in DOMAIN kw |-> kw[j].v.type = "ndarray"]))[i].k]
            /\ Len(ret.args) + Len(ret.kwargs) = Len(kw) - 1

\* f(x1=3, x2=array, x3=array) with x1 positional: the instance is the
\* keyword array x2, a Container of native arrays, and x3 stays a keyword
C21_Witness ==
    /\ call.recv = "test_function"
    /\ ret.how = "instance_method"
    /\ Len(call.args.all_as_kwargs_np) = 3
    /\ call.args.all_as_kwargs_np[1].v.type = "int"
    /\ call.args.num_positional_args = 1
    /\ call.args.native_array_flags = <<TRUE, FALSE>>
    /\ call.args.container_flags = <<TRUE, FALSE>>
    /\ ret.instance = [type |-> "Container", of |-> "x2"]
    /\ ret.args = <<PlainValue("x1")>>
    /\ ret.kwargs = <<[k |-> "x3", v |-> [type |-> "Array", of |-> "x3"]]>>

\* f(array, array) with both positional: the instance is x1
C21_PositionalWitness ==
    /\ call.recv = "test_function"
    /\ ret.how = "instance_method"
    /\ call.args.num_positional_args = 2
    /\ Len(call.args.all_as_kwargs_np) = 2
    /\ ret.instance = [type |-> "Array", of |-> "x1"]
    /\ ret.args = <<[type |-> "native", of |-> "x2"]>>
    /\ ret.kwargs = <<>>

\* C22: get_bounds returns a pair with low < high: for an integer dtype both
\* are non-negative integers and low < high; for a float dtype, where either
\* may be None, default(low, 0.0) < default(high, 1.0).
C22_BoundsAreOrdered ==
    (call.recv = "get_bounds" /\ ret.returned) =>
        IF is_int_dtype(call.args.dtype)
        THEN /\ ~ret.low.none /\ ~ret.high.none
             /\ ret.low.v >= 0
             /\ ret.low.v < ret.high.v
        ELSE default(ret.low, 0) < default(ret.high, 2)

\* a pair was returned on the second draw, the first having been rejected:
\* (None, 0.5) for a float dtype
C22_Witness ==
    /\ call.recv = "get_bounds"
    /\ call.args.dtype = "float32"
    /\ ret.returned
    /\ ret.draws = 2
    /\ ret.low = NoneValue
    /\ ret.high = Number(1)

\* (-2, 1) was drawn for int8 and (1, 2) returned
C22_IntWitness ==
    /\ call.recv = "get_bounds"
    /\ call.args.dtype = "int8"
    /\ ret.returned
    /\ ret.values = <<-2, 1>>
    /\ ret.low = Number(1)
    /\ ret.high = Number(2)

\* the supported table has an entry for the device that holds every input dtype
HasSupportingEntry(a) ==
    \E i \in DOMAIN a.supported.devices :
        /\ a.device \in a.supported.devices[i]
        /\ \A d \in DOMAIN a.input_dtypes : a.input_dtypes[d] \in a.supported.dtypes[i]

\* C23: check_unsupported_device_and_dtype returns False whenever the
\* unsupported table is empty and the supported table has an entry whose
\* devices include the device and whose dtypes include every input dtype,
\* whatever other entries the supported table has.
C23_SupportedEntryMeansSupported ==
    (/\ call.recv = "check_unsupported_device_and_dtype"
     /\ call.args.kw = NoKwargs
     /\ call.args.unsupported.devices = <<>>
     /\ HasSupportingEntry(call.args)) =>
        ret = FALSE

\* what the code does return in that case: False exactly when every entry of
\* the supported table is for the device and holds every input dtype
C23_EveryEntryMustSupport ==
    (/\ call.recv = "check_unsupported_device_and_dtype"
     /\ call.args.kw = NoKwargs
     /\ call.args.unsupported.devices = <<>>) =>
        (ret = FALSE) =
            \A i \in DOMAIN call.args.supported.devices :
                /\ call.args.device \in call.args.supported.devices[i]
                /\ \A d \in DOMAIN call.args.input_dtypes :
                      call.args.input_dtypes[d] \in call.args.supported.dtypes[i]

\* C24: test_unsupported_function fails with an assertion error whenever fn
\* returns normally and returns silently only when fn raises.
C24_SucceedingUnsupportedFunctionFails ==
    (call.recv = "test_unsupported_function") =>
        (ret = "raise") = ~call.args.fn_raises

\* what the code does: it returns silently whether fn raises or returns
C24_AlwaysReturns ==
    (call.recv = "test_unsupported_function") => ret = "return"

\* ------------------------------------------------------------------------
\* exclude, frameworks, calls, f_n_calls (helpers.py 102-112, 285, 435-465)
\* ------------------------------------------------------------------------
MaxExclusions == 2    \* names in one exclusion_list

\* 102-109: framework name -> the backend module its lambda imports
_ivy_fws_dict ==
    <<[fw_str |-> "numpy", ivy_fw |-> "ivy.functional.backends.numpy"],
      [fw_str |-> "jax", ivy_fw |-> "ivy.functional.backends.jax"],
      [fw_str |-> "tensorflow", ivy_fw |-> "ivy.functional.backends.tensorflow"],
      [fw_str |-> "tensorflow_graph", ivy_fw |-> "ivy.functional.backends.tensorflow"],
      [fw_str |-> "torch", ivy_fw |-> "ivy.functional.backends.torch"],
      [fw_str |-> "mxnet", ivy_fw |-> "ivy.functional.backends.mxnet"]>>

\* 285
_calls == <<"np_call", "jnp_call", "tf_call", "tf_graph_call", "torch_call", "mx_call">>

FwStrs == {_ivy_fws_dict[i].fw_str : i \in DOMAIN _ivy_fws_dict}

Modules == {_ivy_fws_dict[i].ivy_fw : i \in DOMAIN _ivy_fws_dict}

Elements(s) == {s[i] : i \in DOMAIN s}

\* the orders list(set) can give the elements of S
ListsOf(S) == {q \in [1..Cardinality(S) -> S] : Elements(q) = S}

\* the entries "if ivy_fw() is not None and fw_str not in _excluded" keeps,
\* in the order of the dict
listed(excl) ==
    Where(_ivy_fws_dict,
          [e \in Elements(_ivy_fws_dict) |->
              e.ivy_fw \in installed /\ e.fw_str \notin Elements(excl)])

\* 440-449: list(set([...])), the modules without repetition
frameworks(excl) == {_ivy_fws_dict[i].ivy_fw : i \in Elements(listed(excl))}

\* 452-457
calls(excl) == [n \in DOMAIN listed(excl) |-> _calls[listed(excl)[n]]]

\* 460-465
f_n_calls(excl) ==
    [n \in DOMAIN listed(excl) |->
        <<_ivy_fws_dict[listed(excl)[n]].ivy_fw, _calls[listed(excl)[n]]>>]

\* 435-437: _excluded += list(set(exclusion_list) - set(_excluded))
exclude(exclusion_list) ==
    /\ call.recv = "none"
    /\ \E added \in ListsOf(exclusion_list \ Elements(excluded)) :
          excluded' = excluded \o added
    /\ UNCHANGED <<installed, backend_stack, log, fn, pc, nested, gt_backend,
                   test_unsupported, exit_kind, exit_pc, depth_at_set, n_unset, cvars>>

Exclude ==
    \E exclusion_list \in {S \in SUBSET FwStrs : S # {} /\ Cardinality(S) <= MaxExclusions} :
        exclude(exclusion_list)

\* a test module lists the frameworks to run under
ListFrameworks ==
    /\ call.recv = "none"
    /\ call' = HelperCall("frameworks", [excluded |-> excluded])
    /\ ret' = [frameworks |-> frameworks(excluded), calls |-> calls(excluded),
               f_n_calls |-> f_n_calls(excluded)]
    /\ UNCHANGED <<bvars, c_self, a_self>>

EInit ==
    /\ installed \in {Modules, Modules \ {"ivy.functional.backends.mxnet"},
                      {"ivy.functional.backends.numpy", "ivy.functional.backends.tensorflow"}}
    /\ backend_stack = <<>>
    /\ log = <<>>
    /\ fn = "none"
    /\ pc = "idle"
    /\ nested = FALSE
    /\ gt_backend = DefaultBackend
    /\ test_unsupported = FALSE
    /\ exit_kind = "none"
    /\ exit_pc = "none"
    /\ depth_at_set = -1
    /\ n_unset = 0
    /\ excluded = <<>>
    /\ c_self = <<>>
    /\ a_self = None
    /\ call = NoCallYet
    /\ ret = NoRet

ENext ==
    \/ Exclude
    \/ ListFrameworks
    \/ DropResult

ExcludeSpec == EInit /\ [][ENext]_vars

\* the call function paired with a framework name
CallOf(n) == _calls[CHOOSE i \in DOMAIN _ivy_fws_dict : _ivy_fws_dict[i].fw_str = n]

ModuleOf(n) == _ivy_fws_dict[CHOOSE i \in DOMAIN _ivy_fws_dict : _ivy_fws_dict[i].fw_str = n].ivy_fw

\* C25: after any sequence of exclude calls, for every excluded name n the
\* module _ivy_fws_dict maps n to is absent from frameworks() and from
\* f_n_calls() and n's call function is absent from calls(); every installed
\* name not excluded still appears, paired with its own call function.
C25_ExcludedFrameworksAreAbsent ==
    (call.recv = "frameworks") =>
        /\ \A n \in Elements(excluded) :
              /\ ModuleOf(n) \notin ret.frameworks
              /\ \A i \in DOMAIN ret.f_n_calls : ret.f_n_calls[i][1] # ModuleOf(n)
              /\ CallOf(n) \notin Elements(ret.calls)
        /\ \A n \in FwStrs \ Elements(excluded) :
              ModuleOf(n) \in installed =>
                  /\ ModuleOf(n) \in ret.frameworks
                  /\ <<ModuleOf(n), CallOf(n)>> \in Elements(ret.f_n_calls)
                  /\ CallOf(n) \in Elements(ret.calls)

\* what the code does give: the entry of an excluded name is absent, that of
\* every other installed name present, and a module is absent only when every
\* name mapped to it is excluded
C25_ExcludedEntriesAreAbsent ==
    (call.recv = "frameworks") =>
        /\ \A n \in Elements(excluded) :
              /\ <<ModuleOf(n), CallOf(n)>> \notin Elements(ret.f_n_calls)
              /\ CallOf(n) \notin Elements(ret.calls)
        /\ \A n \in FwStrs \ Elements(excluded) :
              ModuleOf(n) \in installed =>
                  /\ ModuleOf(n) \in ret.frameworks
                  /\ <<ModuleOf(n), CallOf(n)>> \in Elements(ret.f_n_calls)
                  /\ CallOf(n) \in Elements(ret.calls)
        /\ \A m \in Modules :
              m \in ret.frameworks <=>
                  m \in installed /\ \E n \in FwStrs \ Elements(excluded) : ModuleOf(n) = m

\* C26: for concat(xs) and stack(x) with a sequence that mixes Containers and
\* plain arrays, the list handed to ivy.concat / ivy.stack at every array leaf
\* is self's leaf, then for each element of the sequence in its order the
\* Container's leaf at the same key-chain (the leaf it has above it, when it is
\* shallower) or the plain array itself: 1 + the length of the sequence
\* elements, none used twice or skipped.
C26_ListIsSelfThenSequenceInOrder ==
    (/\ call.recv = "Container"
     /\ call.op \in MultiMapMethods
     /\ ret.err = "none") =>
        \A kc \in ret.applied :
            LET xs == call.a[1]
                mine == Enter(LeafAt(c_self, kc), call.map_sequences)
                made == LeafAt(ret.c, kc)
            IN  (~call.out.given /\ is_array(mine)) =>
                    /\ made.by[1].fn = call.op
                    /\ Operands(made)[1].by[1].pos
                           = <<mine>> \o [i \in 1..Len(xs) |->
                                              IF xs[i].cont
                                              THEN Enter(ValueAt(xs[i].c, kc), call.map_sequences)
                                              ELSE xs[i].leaf]
                    /\ Len(Operands(made)[1].by[1].pos) = 1 + Len(xs)

\* c.stack([d, x, e]) with Containers d, e and an array x: at b/c the list is
\* c's leaf, d's leaf, x, e's leaf
C26_Witness ==
    /\ call.recv = "Container"
    /\ call.op = "stack"
    /\ ret.err = "none"
    /\ ~call.out.given
    /\ call.a[1] = <<Cont(Twin(c_self)), Val(a_self), Cont(Reordered(c_self))>>
    /\ "b/c" \in ret.applied
    /\ Operands(LeafAt(ret.c, "b/c"))[1].by[1].pos
           = <<LeafAt(c_self, "b/c"), LeafAt(Twin(c_self), "b/c"), a_self, LeafAt(c_self, "b/c")>>
    /\ LeafAt(Twin(c_self), "b/c") # LeafAt(c_self, "b/c")
    /\ a_self # LeafAt(c_self, "b/c")

\* ------------------------------------------------------------------------
\* NumPy backend layers (ivy/functional/backends/numpy/layers.py)
\* ------------------------------------------------------------------------
MaxExtent == 4     \* the largest height, width or depth of an input
MaxFilter == 2     \* the largest extent of a filter
MaxStride == 2     \* the largest stride and the largest dilation

\* the extent of a filter axis after np.insert has put dilation - 1 zeros
\* between neighbours (68-82, 221-241)
dilated(f, dilation) == f + (f - 1) * (dilation - 1)

\* the SAME padding of one axis (88-95, 249-260)
pad_same(extent, f, stride) ==
    IF extent % stride = 0
    THEN Max(f - stride, 0)
    ELSE Max(f - (extent % stride), 0)

\* the element of a C-contiguous array of the shape that lies offset elements
\* after its first one; beyond its last one the read is out of bounds
element(shape, offset) ==
    IF offset >= shape[1] * shape[2]
    THEN <<"out of bounds">>
    ELSE <<offset \div shape[2], offset % shape[2]>>

element3(shape, offset) ==
    IF offset >= shape[1] * shape[2] * shape[3]
    THEN <<"out of bounds">>
    ELSE <<offset \div (shape[2] * shape[3]), (offset \div shape[3]) % shape[2], offset % shape[3]>>

\* 47-142, for one batch element and one channel: x_shape is (H, W),
\* filter_shape (f_h, f_w), strides and dilations pairs. The filter is dilated,
\* x padded, the output shape computed, and as_strided gives the view
\* sub_matrices[oh, ow, kh, kw] of the padded x, here by the element it reads.
conv2d(x_shape, filter_shape, strides, padding, dilations) ==
    LET f == <<dilated(filter_shape[1], dilations[1]), dilated(filter_shape[2], dilations[2])>>
        pad_h == IF padding = "SAME" THEN pad_same(x_shape[1], f[1], strides[1]) ELSE 0
        pad_w == IF padding = "SAME" THEN pad_same(x_shape[2], f[2], strides[2]) ELSE 0
        padded == <<x_shape[1] + pad_h, x_shape[2] + pad_w>>
        new_h == (padded[1] - f[1]) \div strides[1] + 1
        new_w == (padded[2] - f[2]) \div strides[2] + 1
        x_strides == <<padded[2], 1>>
        new_strides == <<x_strides[1] * strides[2], x_strides[2] * strides[1], x_strides[1], x_strides[2]>>
    IN  [x_shape |-> padded,
         filter_shape |-> f,
         shape |-> <<new_h, new_w>>,
         sub_matrices |->
            [at \in (0..(new_h - 1)) \X (0..(new_w - 1)) \X (0..(f[1] - 1)) \X (0..(f[2] - 1)) |->
                element(padded, at[1] * new_strides[1] + at[2] * new_strides[2]
                                + at[3] * new_strides[3] + at[4] * new_strides[4])]]

\* 199-305, for one batch element and one channel and dilations 1: x_shape is
\* (D, H, W), filter_shape (f_d, f_h, f_w), strides a triple
conv3d(x_shape, filter_shape, strides, padding) ==
    LET f == filter_shape
        pad == [n \in 1..3 |-> IF padding = "SAME" THEN pad_same(x_shape[n], f[n], strides[n]) ELSE 0]
        padded == [n \in 1..3 |-> x_shape[n] + pad[n]]
        new == [n \in 1..3 |-> (padded[n] - f[n]) \div strides[n] + 1]
        x_strides == <<padded[2] * padded[3], padded[3], 1>>
        new_strides == <<x_strides[1] * strides[3], x_strides[2] * strides[2], x_strides[3] * strides[1],
                         x_strides[1], x_strides[2], x_strides[3]>>
    IN  [x_shape |-> padded,
         filter_shape |-> f,
         shape |-> new,
         sub_matrices |->
            [at \in (0..(new[1] - 1)) \X (0..(new[2] - 1)) \X (0..(new[3] - 1))
                    \X (0..(f[1] - 1)) \X (0..(f[2] - 1)) \X (0..(f[3] - 1)) |->
                element3(padded, at[1] * new_strides[1] + at[2] * new_strides[2]
                                 + at[3] * new_strides[3] + at[4] * new_strides[4]
                                 + at[5] * new_strides[5] + at[6] * new_strides[6])]]

\* np.ceil(float(a) / float(b)) for b > 0
ceil(a, b) == -((-a) \div b)

\* the accumulator is sized by rounding down
depthwise_conv2d_Floor(x_shape, filter_shape, strides, padding, dilations) ==
    LET filter_h == filter_shape[1] + (filter_shape[1] - 1) * (dilations[1] - 1)
        filter_w == filter_shape[2] + (filter_shape[2] - 1) * (dilations[2] - 1)
        output == conv2d(x_shape, filter_shape, strides, padding, dilations)
    IN  [outputs |-> IF padding = "VALID"
                     THEN <<(x_shape[1] - filter_h + 1) \div strides[1],
                            (x_shape[2] - filter_w + 1) \div strides[2]>>
                     ELSE <<x_shape[1] \div strides[1], x_shape[2] \div strides[2]>>,
         output |-> output.shape]

\* 144-192, for one batch element: the height and width of the accumulator
\* `outputs` and of the `output` conv2d returns for a channel
depthwise_conv2d(x_shape, filter_shape, strides, padding, dilations) ==
    LET filter_h == filter_shape[1] + (filter_shape[1] - 1) * (dilations[1] - 1)
        filter_w == filter_shape[2] + (filter_shape[2] - 1) * (dilations[2] - 1)
        output == conv2d(x_shape, filter_shape, strides, padding, dilations)
    IN  [outputs |-> IF padding = "VALID"
                     THEN <<ceil(x_shape[1] - filter_h + 1, strides[1]),
                            ceil(x_shape[2] - filter_w + 1, strides[2])>>
                     ELSE <<ceil(x_shape[1], strides[1]), ceil(x_shape[2], strides[2])>>,
         output |-> output.shape]

Paddings == {"SAME", "VALID"}

\* the input holds the dilated filter on every axis
Fits(x_shape, filter_shape, dilations) ==
    \A n \in DOMAIN x_shape : x_shape[n] >= dilated(filter_shape[n], dilations[n])

LayerCall(name, x_shape, filter_shape, strides, padding, dilations) ==
    HelperCall(name, [x_shape |-> x_shape, filter_shape |-> filter_shape, strides |-> strides,
                      padding |-> padding, dilations |-> dilations])

\* ivy.conv2d(x, filters, strides, padding, dilations=dilations) under numpy
CallConv2d ==
    /\ call.recv = "none"
    /\ \E x_shape \in (1..MaxExtent) \X (1..MaxExtent), filter_shape \in (1..MaxFilter) \X (1..MaxFilter),
          strides \in (1..MaxStride) \X (1..MaxStride), padding \in Paddings,
          dilations \in (1..MaxStride) \X (1..MaxStride) :
        /\ Fits(x_shape, filter_shape, dilations)
        /\ call' = LayerCall("conv2d", x_shape, filter_shape, strides, padding, dilations)
        /\ ret' = conv2d(x_shape, filter_shape, strides, padding, dilations)
    /\ UNCHANGED <<bvars, c_self, a_self>>

\* ivy.conv3d(x, filters, strides, padding) under numpy
CallConv3d ==
    /\ call.recv = "none"
    /\ \E x_shape \in (2..(MaxExtent - 1)) \X (2..(MaxExtent - 1)) \X (2..(MaxExtent - 1)),
          filter_shape \in (1..MaxFilter) \X (1..MaxFilter) \X (1..MaxFilter),
          strides \in (1..MaxStride) \X (1..MaxStride) \X (1..MaxStride), padding \in Paddings :
        /\ call' = LayerCall("conv3d", x_shape, filter_shape, strides, padding, <<1, 1, 1>>)
        /\ ret' = conv3d(x_shape, filter_shape, strides, padding)
    /\ UNCHANGED <<bvars, c_self, a_self>>

\* ivy.depthwise_conv2d(x, filters, strides, padding, dilations=dilations)
\* under numpy
CallDepthwiseConv2d ==
    /\ call.recv = "none"
    /\ \E x_shape \in (1..MaxExtent) \X (1..MaxExtent), filter_shape \in (1..MaxFilter) \X (1..MaxFilter),
          strides \in (1..MaxStride) \X (1..MaxStride), padding \in Paddings,
          dilations \in (1..MaxStride) \X (1..MaxStride) :
        /\ Fits(x_shape, filter_shape, dilations)
        /\ call' = LayerCall("depthwise_conv2d", x_shape, filter_shape, strides, padding, dilations)
        /\ ret' = depthwise_conv2d(x_shape, filter_shape, strides, padding, dilations)
    /\ UNCHANGED <<bvars, c_self, a_self>>

LInit == HInit

LNext ==
    \/ CallConv2d
    \/ CallConv3d
    \/ CallDepthwiseConv2d
    \/ DropResult

LayersSpec == LInit /\ [][LNext]_vars

\* C27: conv2d with strides (s_h, s_w) computes the output at (i, j) from the
\* window of the padded input whose top-left corner is row i*s_h and column
\* j*s_w, also when s_h differs from s_w; conv3d with strides (s_d, s_h, s_w)
\* from the window with corner (i*s_d, j*s_h, k*s_w).
C27_WindowCornerFollowsStrides ==
    /\ (call.recv = "conv2d") =>
          \A at \in DOMAIN ret.sub_matrices :
              ret.sub_matrices[at] = <<at[1] * call.args.strides[1] + at[3],
                                       at[2] * call.args.strides[2] + at[4]>>
    /\ (call.recv = "conv3d") =>
          \A at \in DOMAIN ret.sub_matrices :
              ret.sub_matrices[at] = <<at[1] * call.args.strides[1] + at[4],
                                       at[2] * call.args.strides[2] + at[5],
                                       at[3] * call.args.strides[3] + at[6]>>

\* with equal strides on all axes the windows are the claimed ones
C27_EqualStridesAreRight ==
    /\ (call.recv = "conv2d" /\ call.args.strides[1] = call.args.strides[2]) =>
          \A at \in DOMAIN ret.sub_matrices :
              ret.sub_matrices[at] = <<at[1] * call.args.strides[1] + at[3],
                                       at[2] * call.args.strides[2] + at[4]>>
    /\ (call.recv = "conv3d" /\ call.args.strides[1] = call.args.strides[3]) =>
          \A at \in DOMAIN ret.sub_matrices :
              ret.sub_matrices[at] = <<at[1] * call.args.strides[1] + at[4],
                                       at[2] * call.args.strides[2] + at[5],
                                       at[3] * call.args.strides[3] + at[6]>>

\* C28: for every input extent H, filter extent f, stride s >= 1 and dilation
\* d >= 1 with H >= f + (f-1)(d-1), and for SAME and VALID, the height and
\* width depthwise_conv2d gives its accumulator equal those of the array
\* conv2d returns for a channel.
C28_AccumulatorMatchesConv2d ==
    (call.recv = "depthwise_conv2d") =>
        /\ ret.outputs = ret.output
        /\ ret.outputs[1] = IF call.args.padding = "SAME"
                            THEN ceil(call.args.x_shape[1], call.args.strides[1])
                            ELSE ceil(call.args.x_shape[1]
                                      - dilated(call.args.filter_shape[1], call.args.dilations[1]) + 1,
                                      call.args.strides[1])

\* a 4 x 3 input, a 2 x 2 filter dilated by (2, 1), strides (2, 1), VALID:
\* both are 1 x 2
C28_Witness ==
    /\ call.recv = "depthwise_conv2d"
    /\ call.args.x_shape = <<4, 3>>
    /\ call.args.filter_shape = <<2, 2>>
    /\ call.args.dilations = <<2, 1>>
    /\ call.args.strides = <<2, 1>>
    /\ call.args.padding = "VALID"
    /\ ret.outputs = <<1, 2>>
    /\ ret.output = <<1, 2>>

\* a 3 x 4 input, strides (2, 1), SAME, where the stride does not divide the
\* height: both are 2 x 4
C28_SameWitness ==
    /\ call.recv = "depthwise_conv2d"
    /\ call.args.x_shape = <<3, 4>>
    /\ call.args.filter_shape = <<2, 1>>
    /\ call.args.dilations = <<1, 1>>
    /\ call.args.strides = <<2, 1>>
    /\ call.args.padding = "SAME"
    /\ ret.outputs = <<2, 4>>
    /\ ret.output = <<2, 4>>

\* ------------------------------------------------------------------------
\* Gradients in the TensorFlow and PyTorch backends
\* (ivy/functional/backends/tensorflow/gradients.py, torch/gradients.py)
\* ------------------------------------------------------------------------
MaxRest == 2       \* values func returns after y

\* a tf.Tensor or tf.Variable; attached: gradients flow back through it
TfValue(name, kind, attached) == [name |-> name, kind |-> kind, attached |-> attached]

\* a torch.Tensor: grad_fn is set on a non-leaf; grad is its accumulated
\* gradient: "None", or a tensor of one element ("zero", "nonzero") or of
\* several ("many")
TorchTensor(name, requires_grad, grad_fn, grad) ==
    [name |-> name, requires_grad |-> requires_grad, grad_fn |-> grad_fn, grad |-> grad]

Returned(x) == [err |-> "none", x |-> x]

Raised(err) == [err |-> err, x |-> TorchTensor("none", FALSE, FALSE, "None")]

\* tensorflow/gradients.py 13-15: tf.Variable(x, trainable=True)
tf_variable(x) == TfValue(x.name, "tf.Variable", FALSE)

\* tensorflow/gradients.py 18-19
tf_is_variable(x) == x.kind = "tf.Variable"

\* tensorflow/gradients.py 46-56
tf_stop_gradient(x, preserve_type) ==
    LET is_var == tf_is_variable(x)
        stopped == TfValue(x.name, "tf.Tensor", FALSE)
    IN  IF is_var /\ preserve_type
        THEN Returned(tf_variable(stopped))
        ELSE Returned(stopped)

\* torch/gradients.py 18-19
torch_is_variable(x) == x.requires_grad

\* x.detach(): a leaf that shares the data, requires no gradient and has none
detach(x) == TorchTensor(x.name, FALSE, FALSE, "None")

\* bool(x.grad), as "elif x.grad:" takes it: None is false, a tensor of one
\* element is its value, a tensor of several raises
truth(grad) ==
    CASE grad = "None" -> "False"
      [] grad = "zero" -> "False"
      [] grad = "nonzero" -> "True"
      [] OTHER -> "RuntimeError"

\* torch/gradients.py 60-75
torch_stop_gradient(x, preserve_type) ==
    IF torch_is_variable(x) /\ preserve_type
    THEN IF x.grad_fn
         THEN Returned([detach(x) EXCEPT !.requires_grad = TRUE])
         ELSE IF truth(x.grad) = "RuntimeError"
              THEN Raised("RuntimeError")
              ELSE IF truth(x.grad) = "True"
                   THEN Returned([x EXCEPT !.grad = "zero"])
                   ELSE Returned(x)
    ELSE Returned(detach(x))

\* what func returned: y alone, or the tuple (y, *rest)
FuncRet(is_tuple, rest) == [is_tuple |-> is_tuple, y |-> "y", rest |-> rest]

\* tape.gradient(y, xs) and torch.autograd.grad(y, xs): the gradient of y with
\* respect to xs, of the structure of xs
Gradient(y, xs) == [name |-> "grads", of |-> y, wrt |-> xs]

\* rest is not returned
tf_execute_with_gradients_WithoutRest(func_ret, xs, retain_grads) ==
    LET y == TfValue(func_ret.y, "tf.Tensor", TRUE)
    IN  <<IF ~retain_grads THEN tf_stop_gradient(y, TRUE).x ELSE y, Gradient(func_ret.y, xs)>>

\* tensorflow/gradients.py 26-43; func_ret is what func(xs) returned
tf_execute_with_gradients(func_ret, xs, retain_grads) ==
    LET y == TfValue(func_ret.y, "tf.Tensor", TRUE)
        rest == IF func_ret.is_tuple THEN func_ret.rest ELSE <<>>
        grads == Gradient(y.name, xs)
    IN  <<IF ~retain_grads THEN tf_stop_gradient(y, TRUE).x ELSE y, grads>> \o rest

\* torch/gradients.py 27-57; y is a non-leaf computed from xs
torch_execute_with_gradients(func_ret, xs, retain_grads) ==
    LET y == TorchTensor(func_ret.y, TRUE, TRUE, "None")
        rest == IF func_ret.is_tuple THEN func_ret.rest ELSE <<>>
        grads == IF xs = "Container"
                 THEN Gradient(y.name, "Container")
                 ELSE Gradient(y.name, xs)
    IN  <<IF ~retain_grads THEN torch_stop_gradient(y, TRUE).x ELSE y, grads>> \o rest

TfValues == {TfValue("x", kind, attached) : kind \in {"tf.Tensor", "tf.Variable"}, attached \in BOOLEAN}

\* leaves with or without an accumulated gradient, and non-leaves
TorchTensors ==
    {TorchTensor("x", FALSE, FALSE, "None"), TorchTensor("x", TRUE, TRUE, "None")}
        \cup {TorchTensor("x", TRUE, FALSE, grad) : grad \in {"None", "zero", "nonzero", "many"}}

\* ivy.stop_gradient(x, preserve_type) under the backend
CallStopGradient ==
    /\ call.recv = "none"
    /\ \E backend \in {"tensorflow", "torch"}, preserve_type \in BOOLEAN :
       \E x \in IF backend = "tensorflow" THEN TfValues ELSE TorchTensors :
        /\ call' = HelperCall("stop_gradient",
                       [backend |-> backend, x |-> x, preserve_type |-> preserve_type])
        /\ ret' = IF backend = "tensorflow"
                  THEN tf_stop_gradient(x, preserve_type)
                  ELSE torch_stop_gradient(x, preserve_type)
    /\ UNCHANGED <<bvars, c_self, a_self>>

\* ivy.execute_with_gradients(func, xs, retain_grads) for the same func under
\* each backend
CallExecuteWithGradients ==
    /\ call.recv = "none"
    /\ \E is_tuple \in BOOLEAN, n \in 0..MaxRest, xs \in {"array", "Container"},
          retain_grads \in BOOLEAN :
       \E rest \in [1..n -> {"aux", "loss", "state"}] :
        /\ call' = HelperCall("execute_with_gradients",
                       [func_ret |-> FuncRet(is_tuple, rest), xs |-> xs,
                        retain_grads |-> retain_grads])
        /\ ret' = [tensorflow |-> tf_execute_with_gradients(FuncRet(is_tuple, rest), xs, retain_grads),
                   torch |-> torch_execute_with_gradients(FuncRet(is_tuple, rest), xs, retain_grads)]
    /\ UNCHANGED <<bvars, c_self, a_self>>

GNext ==
    \/ CallStopGradient
    \/ CallExecuteWithGradients
    \/ DropResult

GradientsSpec == HInit /\ [][GNext]_vars

\* C29: in both backends execute_with_gradients returns (y, grads, *rest): y
\* is func's return value (its first element when func returns a tuple),
\* grads the gradient of y with respect to xs, rest the remaining elements of
\* func's return in order, so the length is 2 + len(rest); without
\* retain_grads y has its gradient stopped; the two backends return tuples of
\* the same shape.
C29_ReturnsYGradsRest ==
    (call.recv = "execute_with_gradients") =>
        LET rest == IF call.args.func_ret.is_tuple THEN call.args.func_ret.rest ELSE <<>>
            tf == ret.tensorflow
            torch == ret.torch
        IN  /\ \A r \in {tf, torch} :
                  /\ Len(r) = 2 + Len(rest)
                  /\ r[1].name = call.args.func_ret.y
                  /\ r[2] = Gradient(call.args.func_ret.y, call.args.xs)
                  /\ SubSeq(r, 3, Len(r)) = rest
            /\ ~call.args.retain_grads => ~tf[1].attached /\ ~torch[1].grad_fn
            /\ call.args.retain_grads => tf[1].attached /\ torch[1].grad_fn
            /\ Len(tf) = Len(torch)
            /\ \A i \in 2..Len(tf) : tf[i] = torch[i]

\* func returned (y, "aux", "loss") and retain_grads was false
C29_Witness ==
    /\ call.recv = "execute_with_gradients"
    /\ call.args.func_ret = FuncRet(TRUE, <<"aux", "loss">>)
    /\ call.args.xs = "Container"
    /\ ~call.args.retain_grads
    /\ Len(ret.torch) = 4
    /\ ret.torch[3] = "aux"
    /\ ret.tensorflow[4] = "loss"
    /\ ~ret.tensorflow[1].attached
    /\ ~ret.torch[1].grad_fn

\* C30: in both backends the result of stop_gradient(x, preserve_type) is a
\* variable exactly when x is a variable and preserve_type is true, for every
\* state of x (leaf or non-leaf, with or without an accumulated gradient).
C30_VariableIffVariableAndPreserved ==
    (call.recv = "stop_gradient") =>
        /\ ret.err = "none"
        /\ IF call.args.backend = "tensorflow"
           THEN tf_is_variable(ret.x) = (tf_is_variable(call.args.x) /\ call.args.preserve_type)
           ELSE torch_is_variable(ret.x) = (torch_is_variable(call.args.x) /\ call.args.preserve_type)

\* whenever stop_gradient returns, the equation holds
C30_HoldsWhenReturned ==
    (call.recv = "stop_gradient" /\ ret.err = "none") =>
        IF call.args.backend = "tensorflow"
        THEN tf_is_variable(ret.x) = (tf_is_variable(call.args.x) /\ call.args.preserve_type)
        ELSE torch_is_variable(ret.x) = (torch_is_variable(call.args.x) /\ call.args.preserve_type)
====
